---- MODULE Spec2Model ----
(***************************************************************************)
(* A model of the hot path of the ARBITRAGEX MEV engine:                   *)
(*   - rust-core/src/execution/nonce_manager.rs       (NonceManager)       *)
(*   - rust-core/src/execution/profitability_guard.rs (ProfitabilityGuard) *)
(*   - rust-mev-engine/src/opportunity_detector.rs    (OpportunityDetector)*)
(*   - rust-mev-engine/src/executor.rs                (Executor)           *)
(* Each component has its own specification; the variables of the other    *)
(* components stay at their initial value.                                 *)
(*                                                                         *)
(* f64 amounts are modelled as exact scaled integers (the rounding of the  *)
(* binary floating point format is not modelled).                          *)
(***************************************************************************)
EXTENDS Integers, Sequences, FiniteSets, TLC

VARIABLES
  \* ---- NonceManager (nonce_manager.rs) ----
  redis_next,      \* Redis key nonce:next:<chain>:<wallet>: absent, or a decimal string
  onchain,         \* provider.get_transaction_count(wallet)
  memory_cache,    \* per manager replica: no entry, or (nonce, fresh)
  pending_txs,     \* per manager replica: nonce -> TxInfo (partial map)
  txs_stuck,       \* per manager replica: a call waits forever for the pending_txs lock it holds
  pc,              \* per task: position inside get_next_nonce / reserve_nonce
  op,              \* per task: the call it is running
  local,           \* per task: the local variable `nonce` (0 outside a call)
  issued,          \* history: the results of reserve_nonce, in order of return
  last_result,     \* history: the most recent completed call
  calls,           \* history: number of calls started
  \* ---- ProfitabilityGuard (profitability_guard.rs) ----
  guard_config,    \* the ProfitabilityConfig behind the RwLock
  guard_eval,      \* the ProfitabilityMetrics and result of the last is_profitable
  guard_accepted,  \* history: ids of the opportunities is_profitable has accepted
  \* ---- Executor (executor.rs) ----
  exec_config,     \* the Config snapshot behind the RwLock
  nonce_tracker,   \* NonceTracker::nonces of the one chain
  exec_sent,       \* history: the sends made, in order
  exec_runs,       \* history: number of execute_opportunity calls
  \* ---- OpportunityDetector (opportunity_detector.rs, database.rs) ----
  det_config,      \* the Config snapshot the detector reads
  det_db,          \* table opportunities: id -> [ts, pending]
  det_now,         \* chrono::Utc::now().timestamp_millis()
  priority_queue,  \* PriorityQueue<String, i32>: id -> priority
  opportunity_scores, \* HashMap<String, OpportunityScore>
  det_drained,     \* history: what the last execute_top_opportunities popped
  det_steps,       \* history: number of inserts and clock steps
  \* ---- calculate_opportunity_score on its own (opportunity_detector.rs) ----
  score_input,     \* the Opportunity, its age and the Config the score is asked for
  score_result,    \* the OpportunityScore returned (opportunity_id NONE before the call)
  \* ---- Executor::send_private_transaction on its own (executor.rs) ----
  disp_config,  \* the relays in configured order and the relays that are enabled
  disp_pos,  \* position of the loop of send_private_transaction in the relays
  disp_log,  \* history: the relays contacted, in order, with the outcome of each
  disp_last_error,  \* the relay of the last failure (NONE: none yet)
  disp_result, \* what send_private_transaction returned (state running before)
  \* ---- bundle senders (bundle_senders/*.rs) ----
  snd_new,  \* arguments of the last create_sender call
  snd_sender,  \* the sender it returned, if any
  snd_bundle,  \* txs of the last send_bundle call
  snd_requests,  \* requests that call made, in order
  snd_result, \* what that call returned
  \* ---- NonceManager: the sweep of the in-flight table (nonce_manager.rs) ----
  tx_now, \* chrono::Utc::now() of the in-flight table, in seconds
  \* ---- CircuitBreaker (rpc_health.rs) and RpcManager::get_provider (rpc_manager.rs) ----
  cb_state,  \* CircuitBreaker.state
  cb_failure_count,  \* CircuitBreaker.failure_count
  cb_success_count,  \* CircuitBreaker.success_count
  cb_elapsed,  \* last_state_change.elapsed(), in seconds
  cb_fail_run,  \* history: failures recorded in a row
  cb_ok_run,  \* history: successes recorded in a row since HalfOpen was entered
  cb_trials,  \* history: requests admitted in HalfOpen since the last recorded outcome
  cb_last,  \* history: the last call on the breaker
  rpc_is_healthy,  \* RpcHealth.is_healthy of the endpoint
  rpc_request_count,  \* RpcConnection.request_count
  rpc_acquired, \* what the last get_provider returned
  \* ---- HealthChecker::check_quorum (rpc_health.rs) ----
  q_results,  \* what each provider answered to the operation, in provider order
  q_outcome, \* what check_quorum returned
  \* ---- RpcManager::get_provider over the connections of a chain, called by concurrent tasks ----
  pool_healthy,  \* RpcHealth.is_healthy of each connection of the chain
  pool_permit,  \* whether each connection's rate limiter has a permit
  pool_index,  \* round_robin_indices[chain], modulo the number of connections
  pool_count,  \* RpcConnection.request_count of each connection
  pool_pc,  \* where each task stands in get_provider
  pool_attempts,  \* attempts of each task's call
  pool_result,  \* what each task's last call returned (0 nothing yet, -1 an error, else the connection)
  pool_steady,  \* history: connections healthy and with permits since the task's call began
  pool_calls, \* calls of get_provider begun
  \* ---- GasOracle (gas_oracle.rs) ----
  gas_config,  \* chain_configs[chain]
  gas_mem,  \* memory_cache[chain]: the GasData and the age of its timestamp
  gas_redis,  \* the Redis key gas_oracle:chain:<id>, kept by Redis for ttl seconds
  gas_result, \* what the last get_gas_data returned
  \* ---- process_pending_txs step by step, beside the other calls ----
  swp_snapshot,  \* the clone of pending_txs that process_pending_txs iterates over
  swp_todo,  \* the keys of the clone not yet visited, in the order of the HashMap
  swp_running,  \* whether a pass of process_pending_txs is under way
  tx_replacements, \* history: replacements made for each nonce by create_replacement_tx
  \* ---- Executor::run ----
  run_rows,  \* the executions table, in the order of created_at
  run_spawned,  \* history: tasks spawned for each execution id
  run_tasks  \* execute_opportunity tasks running for each execution id

nonceVars == <<redis_next, onchain, memory_cache, pending_txs, txs_stuck,
              pc, op, local,
               issued, last_result, calls>>

guardVars == <<guard_config, guard_eval, guard_accepted>>
execVars == <<exec_config, nonce_tracker, exec_sent, exec_runs>>

detVars == <<det_config, det_db, det_now, priority_queue, opportunity_scores,
             det_drained, det_steps>>

scoreVars == <<score_input, score_result>>

dispVars == <<disp_config, disp_pos, disp_log, disp_last_error, disp_result>>

sndVars == <<snd_new, snd_sender, snd_bundle, snd_requests, snd_result>>

swpVars == <<tx_now>>

cbVars == <<cb_state, cb_failure_count, cb_success_count, cb_elapsed, cb_fail_run, cb_ok_run, cb_trials, cb_last, rpc_is_healthy, rpc_request_count, rpc_acquired>>

qVars == <<q_results, q_outcome>>

poolVars == <<pool_healthy, pool_permit, pool_index, pool_count, pool_pc, pool_attempts, pool_result, pool_steady, pool_calls>>

gasVars == <<gas_config, gas_mem, gas_redis, gas_result>>

raceVars == <<swp_snapshot, swp_todo, swp_running, tx_replacements>>

runVars == <<run_rows, run_spawned, run_tasks>>

vars == <<nonceVars, guardVars, execVars, detVars, scoreVars, dispVars, sndVars, swpVars, cbVars, qVars, poolVars, gasVars, raceVars, runVars>>

\* what a step of one component leaves alone
NonceFrame == UNCHANGED <<guardVars, execVars, detVars, scoreVars, dispVars, sndVars, swpVars, cbVars, qVars, poolVars, gasVars, raceVars, runVars>>
GuardFrame == UNCHANGED <<nonceVars, execVars, detVars, scoreVars, dispVars, sndVars, swpVars, cbVars, qVars, poolVars, gasVars, raceVars, runVars>>
ExecFrame == UNCHANGED <<nonceVars, guardVars, detVars, scoreVars, dispVars, sndVars, swpVars, cbVars, qVars, poolVars, gasVars, raceVars, runVars>>
DetFrame == UNCHANGED <<nonceVars, guardVars, execVars, scoreVars, dispVars, sndVars, swpVars, cbVars, qVars, poolVars, gasVars, raceVars, runVars>>
ScoreFrame == UNCHANGED <<nonceVars, guardVars, execVars, detVars, dispVars, sndVars, swpVars, cbVars, qVars, poolVars, gasVars, raceVars, runVars>>
DispFrame == UNCHANGED <<nonceVars, guardVars, execVars, detVars, scoreVars, sndVars, swpVars, cbVars, qVars, poolVars, gasVars, raceVars, runVars>>
SndFrame == UNCHANGED <<nonceVars, guardVars, execVars, detVars, scoreVars, dispVars, swpVars, cbVars, qVars, poolVars, gasVars, raceVars, runVars>>
SwpFrame == UNCHANGED <<nonceVars, guardVars, execVars, detVars, scoreVars, dispVars, sndVars, cbVars, qVars, poolVars, gasVars, raceVars, runVars>>
CbFrame == UNCHANGED <<nonceVars, guardVars, execVars, detVars, scoreVars, dispVars, sndVars, swpVars, qVars, poolVars, gasVars, raceVars, runVars>>
QFrame == UNCHANGED <<nonceVars, guardVars, execVars, detVars, scoreVars, dispVars, sndVars, swpVars, cbVars, poolVars, gasVars, raceVars, runVars>>
PoolFrame == UNCHANGED <<nonceVars, guardVars, execVars, detVars, scoreVars, dispVars, sndVars, swpVars, cbVars, qVars, gasVars, raceVars, runVars>>
GasFrame == UNCHANGED <<nonceVars, guardVars, execVars, detVars, scoreVars, dispVars, sndVars, swpVars, cbVars, qVars, poolVars, raceVars, runVars>>
RaceFrame == UNCHANGED <<guardVars, execVars, detVars, scoreVars, dispVars, sndVars, swpVars, cbVars, qVars, poolVars, gasVars, runVars>>
RunFrame == UNCHANGED <<nonceVars, guardVars, execVars, detVars, scoreVars, dispVars, sndVars, swpVars, cbVars, qVars, poolVars, gasVars, raceVars>>

NONE == "none"

\* ------------------------------------------------------------------ bounds
NumTasks == 3      \* tasks calling the managers (odd ones on replica 1, even on 2)
MaxCalls == 3      \* calls started in one behaviour
SeedLow == 0       \* the two on-chain transaction counts tried as seed
SeedHigh == 9
MaxRegNonce == 1   \* register_tx is called with nonces 0 .. MaxRegNonce
MaxConcurrentTrades == 2 \* execution.max_concurrent_trades of the configuration tried
MaxExecRuns == 2   \* execute_opportunity calls in one behaviour
MaxDetSteps == 4   \* inserts and clock steps in one behaviour
MaxRetryCount == 1 \* cap of retry_count, which the code lets grow without limit
MaxRelays == 3     \* length of execution.relays
MaxBundle == 3     \* transactions in one bundle
MaxTxNow == 1      \* seconds the clock of the in-flight table runs

Managers == {1, 2}
Tasks == 1 .. NumTasks
Seeds == {SeedLow, SeedHigh}

MgrOf(t) == IF t % 2 = 1 THEN 1 ELSE 2

\* ------------------------------------------------- decimal strings (Redis)
Digit(d) == <<d>>

RECURSIVE ToDecStr(_)
\* U256::to_string: the decimal digits, most significant first
ToDecStr(n) == IF n < 10 THEN Digit(n) ELSE ToDecStr(n \div 10) \o Digit(n % 10)

RECURSIVE FromDecStr(_)
\* U256::from_dec_str: the value of a digit string
FromDecStr(s) ==
  IF Len(s) = 0 THEN 0
  ELSE 10 * FromDecStr(SubSeq(s, 1, Len(s) - 1)) + s[Len(s)]

\* U256::from_dec_str fails on an empty string
ParsesOk(s) == Len(s) > 0

\* a Redis string key: absent, or set to a string
NoKey == [set |-> FALSE, str |-> <<>>]
Key(s) == [set |-> TRUE, str |-> s]

\* Redis INCR key 1: an absent key counts as 0
RedisIncr(v) == IF ~v.set THEN Key(ToDecStr(1)) ELSE Key(ToDecStr(FromDecStr(v.str) + 1))

\* ------------------------------------------------------------ NonceManager
\* HashMap: the empty map, insert and remove
EmptyMap == [k \in {} |-> 0]
MapInsert(f, k, v) == [x \in DOMAIN f \cup {k} |-> IF x = k THEN v ELSE f[x]]
MapRemove(f, k) == [x \in DOMAIN f \ {k} |-> f[x]]

NoEntry == [present |-> FALSE, nonce |-> 0, fresh |-> FALSE]
CacheEntry(n) == [present |-> TRUE, nonce |-> n, fresh |-> TRUE]

\* NonceManager::new, seen from the tasks
NonceInit ==
  /\ redis_next = NoKey
  /\ onchain \in Seeds
  /\ memory_cache = [m \in Managers |-> NoEntry]
  /\ pending_txs = [m \in Managers |-> EmptyMap]
  /\ txs_stuck = [m \in Managers |-> FALSE]
  /\ pc = [t \in Tasks |-> "idle"]
  /\ op = [t \in Tasks |-> NONE]
  /\ local = [t \in Tasks |-> 0]
  /\ issued = <<>>
  /\ last_result = [kind |-> NONE, task |-> 0, value |-> 0]
  /\ calls = 0

\* a task calls reserve_nonce or get_next_nonce
StartCall(t, o) ==
  /\ NonceFrame
  /\ pc[t] = "idle"
  /\ calls < MaxCalls
  /\ calls' = calls + 1
  /\ pc' = [pc EXCEPT ![t] = "gn_cache"]
  /\ op' = [op EXCEPT ![t] = o]
  /\ UNCHANGED <<redis_next, onchain, memory_cache, pending_txs, txs_stuck, local, issued, last_result>>

\* get_next_nonce returns n: to its caller reserve_nonce, or to the task
GnReturns(t, n) ==
  /\ IF op[t] = "reserve"
     THEN /\ local' = [local EXCEPT ![t] = n]
          /\ pc' = [pc EXCEPT ![t] = "rs_incr"]
          /\ UNCHANGED <<op, last_result>>
     ELSE /\ local' = [local EXCEPT ![t] = 0]
          /\ pc' = [pc EXCEPT ![t] = "idle"]
          /\ op' = [op EXCEPT ![t] = NONE]
          /\ last_result' = [kind |-> "query", task |-> t, value |-> n]

\* get_next_nonce: the in-memory cache, valid for 10 s
GnCacheRead(t) ==
  /\ NonceFrame
  /\ pc[t] = "gn_cache"
  /\ LET c == memory_cache[MgrOf(t)] IN
       IF c.present /\ c.fresh
       THEN GnReturns(t, c.nonce)
       ELSE /\ pc' = [pc EXCEPT ![t] = "gn_redis_get"]
            /\ UNCHANGED <<op, local, last_result>>
  /\ UNCHANGED <<redis_next, onchain, memory_cache, pending_txs, txs_stuck, issued, calls>>

\* get_next_nonce: GET on Redis
GnRedisGet(t) ==
  /\ NonceFrame
  /\ pc[t] = "gn_redis_get"
  /\ IF redis_next.set /\ ParsesOk(redis_next.str)
     THEN /\ local' = [local EXCEPT ![t] = FromDecStr(redis_next.str)]
          /\ pc' = [pc EXCEPT ![t] = "gn_cache_put"]
     ELSE /\ pc' = [pc EXCEPT ![t] = "gn_chain"]
          /\ UNCHANGED local
  /\ UNCHANGED <<redis_next, onchain, memory_cache, pending_txs, txs_stuck, op, issued, last_result, calls>>

\* get_next_nonce: the transaction count of the chain
GnChain(t) ==
  /\ NonceFrame
  /\ pc[t] = "gn_chain"
  /\ local' = [local EXCEPT ![t] = onchain]
  /\ pc' = [pc EXCEPT ![t] = "gn_redis_set"]
  /\ UNCHANGED <<redis_next, onchain, memory_cache, pending_txs, txs_stuck, op, issued, last_result, calls>>

\* get_next_nonce: SET on Redis
GnRedisSet(t) ==
  /\ NonceFrame
  /\ pc[t] = "gn_redis_set"
  /\ redis_next' = Key(ToDecStr(local[t]))
  /\ pc' = [pc EXCEPT ![t] = "gn_cache_put"]
  /\ UNCHANGED <<onchain, memory_cache, pending_txs, txs_stuck, op, local, issued, last_result, calls>>

\* get_next_nonce: memory_cache.insert(key, (nonce, now)), then return
GnCachePut(t) ==
  /\ NonceFrame
  /\ pc[t] = "gn_cache_put"
  /\ memory_cache' = [memory_cache EXCEPT ![MgrOf(t)] = CacheEntry(local[t])]
  /\ GnReturns(t, local[t])
  /\ UNCHANGED <<redis_next, onchain, pending_txs, txs_stuck, issued, calls>>

\* reserve_nonce: INCR on Redis
RsIncr(t) ==
  /\ NonceFrame
  /\ pc[t] = "rs_incr"
  /\ redis_next' = RedisIncr(redis_next)
  /\ pc' = [pc EXCEPT ![t] = "rs_cache_put"]
  /\ UNCHANGED <<onchain, memory_cache, pending_txs, txs_stuck, op, local, issued, last_result, calls>>

\* reserve_nonce that caches the nonce it returns instead of the next one
RsCachePut_NoIncrement(t) ==
  /\ NonceFrame
  /\ pc[t] = "rs_cache_put"
  /\ memory_cache' = [memory_cache EXCEPT ![MgrOf(t)] = CacheEntry(local[t])]
  /\ issued' = Append(issued, [task |-> t, mgr |-> MgrOf(t), nonce |-> local[t]])
  /\ last_result' = [kind |-> "reserve", task |-> t, value |-> local[t]]
  /\ pc' = [pc EXCEPT ![t] = "idle"]
  /\ op' = [op EXCEPT ![t] = NONE]
  /\ local' = [local EXCEPT ![t] = 0]
  /\ UNCHANGED <<redis_next, onchain, pending_txs, txs_stuck, calls>>

\* reserve_nonce: memory_cache.insert(key, (nonce + 1, now)), then Ok(nonce)
RsCachePut(t) ==
  /\ NonceFrame
  /\ pc[t] = "rs_cache_put"
  /\ memory_cache' = [memory_cache EXCEPT ![MgrOf(t)] = CacheEntry(local[t] + 1)]
  /\ issued' = Append(issued, [task |-> t, mgr |-> MgrOf(t), nonce |-> local[t]])
  /\ last_result' = [kind |-> "reserve", task |-> t, value |-> local[t]]
  /\ pc' = [pc EXCEPT ![t] = "idle"]
  /\ op' = [op EXCEPT ![t] = NONE]
  /\ local' = [local EXCEPT ![t] = 0]
  /\ UNCHANGED <<redis_next, onchain, pending_txs, txs_stuck, calls>>

\* a Redis connection, a Redis command or the provider fails: the `?` returns Err
CallFails(t) ==
  /\ NonceFrame
  /\ pc[t] \in {"gn_redis_get", "gn_chain", "gn_redis_set", "rs_incr"}
  /\ pc' = [pc EXCEPT ![t] = "idle"]
  /\ op' = [op EXCEPT ![t] = NONE]
  /\ last_result' = [kind |-> "error", task |-> t, value |-> 0]
  /\ local' = [local EXCEPT ![t] = 0]
  /\ UNCHANGED <<redis_next, onchain, memory_cache, pending_txs, txs_stuck, issued, calls>>

\* time passes: timestamp.elapsed() reaches 10 s
Expire(m) ==
  /\ NonceFrame
  /\ memory_cache[m].present
  /\ memory_cache[m].fresh
  /\ memory_cache' = [memory_cache EXCEPT ![m].fresh = FALSE]
  /\ UNCHANGED <<redis_next, onchain, pending_txs, txs_stuck, pc, op, local, issued, last_result, calls>>

ReserveStep(t) ==
  \/ GnCacheRead(t)
  \/ GnRedisGet(t)
  \/ GnChain(t)
  \/ GnRedisSet(t)
  \/ GnCachePut(t)
  \/ RsIncr(t)
  \/ RsCachePut(t)
  \/ CallFails(t)


\* ------------------------------------------------ NonceManager: in-flight txs
TxStates == {"Pending", "Mined", "Failed", "Replaced", "Expired"}
RegNonces == 0 .. MaxRegNonce
\* the transactions register_tx is called with: <<hash, gas_price>>
TxInputs == {<<1, 20>>, <<2, 25>>}

\* NonceManagerConfig::priority_fee_bump_percent of the default configuration
priority_fee_bump_percent == 10

TxInfo(h, n, g) ==
  [hash |-> h, state |-> "Pending", nonce |-> n, gas_price |-> g, retry_count |-> 0,
   created_at |-> tx_now]

\* register_tx keeping its entries under the hash instead of the nonce
RegisterTx_KeyedByHash(m, n, h, g, ok) ==
  /\ NonceFrame
  /\ ~txs_stuck[m]
  /\ pending_txs' = [pending_txs EXCEPT ![m] = MapInsert(@, h, TxInfo(h, n, g))]
  /\ last_result' = IF ok THEN [kind |-> "register", task |-> 0, value |-> n]
                      ELSE [kind |-> "error", task |-> 0, value |-> 0]
  /\ UNCHANGED <<redis_next, onchain, memory_cache, txs_stuck, pc, op, local, issued, calls>>

\* register_tx: the entry is inserted, then written to Redis (ok: the write succeeds)
RegisterTx(m, n, h, g, ok) ==
  /\ NonceFrame
  /\ ~txs_stuck[m]
  /\ pending_txs' = [pending_txs EXCEPT ![m] = MapInsert(@, n, TxInfo(h, n, g))]
  /\ last_result' = IF ok THEN [kind |-> "register", task |-> 0, value |-> n]
                      ELSE [kind |-> "error", task |-> 0, value |-> 0]
  /\ UNCHANGED <<redis_next, onchain, memory_cache, txs_stuck, pc, op, local, issued, calls>>

\* update_tx_state on the table: the entry gets the new state and is written to
\* Redis (ok: the write succeeds); for Mined and Failed cleanup_tx then asks
\* for the write lock of pending_txs, which update_tx_state itself still
\* holds: the call never returns ("blocked") and the lock stays taken
UpdateTxStateOn(table, n, new_state, ok) ==
  IF n \notin DOMAIN table THEN [table |-> table, outcome |-> "error"]
  ELSE [table |-> [table EXCEPT ![n].state = new_state],
        outcome |-> IF ~ok THEN "error"
                    ELSE IF new_state \in {"Mined", "Failed"} THEN "blocked"
                    ELSE "ok"]

\* update_tx_state
UpdateTxState(m, n, new_state, ok) ==
  /\ NonceFrame
  /\ ~txs_stuck[m]
  /\ LET r == UpdateTxStateOn(pending_txs[m], n, new_state, ok)
     IN /\ pending_txs' = [pending_txs EXCEPT ![m] = r.table]
        /\ txs_stuck' = [txs_stuck EXCEPT ![m] = (r.outcome = "blocked")]
        /\ last_result' =
             CASE r.outcome = "ok" -> [kind |-> "observe", task |-> 0, value |-> n]
               [] r.outcome = "error" -> [kind |-> "error", task |-> 0, value |-> 0]
               [] OTHER -> last_result
  /\ UNCHANGED <<redis_next, onchain, memory_cache, pc, op, local, issued, calls>>

\* (gas_price as f64 * bump_factor) as u128: the cast truncates
BumpedGasPrice(g) == (g * (100 + priority_fee_bump_percent)) \div 100

\* create_replacement_tx: the entry becomes Replaced, retry_count grows, the
\* bumped gas price is returned
CreateReplacementTxCall(m, n, ok) ==
  /\ ~txs_stuck[m]
  /\ IF n \in DOMAIN pending_txs[m]
     THEN /\ pending_txs[m][n].retry_count < MaxRetryCount
          /\ pending_txs' = [pending_txs EXCEPT ![m][n].state = "Replaced",
                                                ![m][n].retry_count = @ + 1]
          /\ last_result' = IF ok
                            THEN [kind |-> "replacement", task |-> 0,
                                  value |-> BumpedGasPrice(pending_txs[m][n].gas_price)]
                            ELSE [kind |-> "error", task |-> 0, value |-> 0]
     ELSE /\ last_result' = [kind |-> "error", task |-> 0, value |-> 0]
          /\ UNCHANGED pending_txs
  /\ UNCHANGED <<redis_next, onchain, memory_cache, txs_stuck, pc, op, local, issued, calls>>

CreateReplacementTx(m, n, ok) == NonceFrame /\ CreateReplacementTxCall(m, n, ok)

\* ---------------------------------------- NonceManager: replacement and sweep
\* the NonceManagerConfig of the chain, as update_chain_config sets it: a
\* timeout of no full second and one retry, which the clock and retry_count
\* reach and pass
TxConfig == [tx_timeout_secs |-> 0, max_retry_count |-> 1]

\* provider.get_transaction_receipt: Ok(None), Ok(Some(status 1)),
\* Ok(Some(another status)) or Err
ReceiptOutcomes == {"none", "status1", "status0", "err"}

SwpIdle == tx_now = 0

\* should_replace_tx on the table: the retry_count test comes after the
\* return of the timeout test and both of its branches return false
ShouldReplaceTxOn(table, n, receipt, now) ==
  IF n \notin DOMAIN table THEN FALSE
  ELSE IF table[n].state # "Pending" THEN FALSE
  ELSE IF receipt \in {"status1", "status0"} THEN FALSE
  ELSE IF now - table[n].created_at > TxConfig.tx_timeout_secs THEN TRUE
  ELSE IF table[n].retry_count >= TxConfig.max_retry_count THEN FALSE
  ELSE FALSE

\* should_replace_tx: Ok(true) is value 1, Ok(false) is value 0
ShouldReplaceTx(m, n, receipt) ==
  /\ NonceFrame
  /\ ~txs_stuck[m]
  /\ last_result' = [kind |-> "should_replace", task |-> 0,
                     value |-> IF ShouldReplaceTxOn(pending_txs[m], n, receipt, tx_now)
                               THEN 1 ELSE 0]
  /\ UNCHANGED <<redis_next, onchain, memory_cache, pending_txs, txs_stuck,
                 pc, op, local, issued, calls>>

\* the orders in which a HashMap may yield the keys of S
Orders(S) == {f \in [1 .. Cardinality(S) -> S] : \A i, j \in DOMAIN f : f[i] = f[j] => i = j}

PendingKeys(table) == {n \in DOMAIN table : table[n].state = "Pending"}

RECURSIVE SweepFrom(_, _, _, _, _, _, _)
\* the loop of process_pending_txs from position i of the snapshot: first is
\* the receipt the loop gets, second the one should_replace_tx gets, redis
\* whether the write of update_tx_state succeeds; a blocked update_tx_state
\* ends the pass for good
SweepFrom(table, order, i, first, second, redis, now) ==
  IF i > Len(order) THEN [table |-> table, blocked |-> FALSE]
  ELSE
    LET n == order[i]
        observed ==
          IF first[n] \in {"status1", "status0"}
          THEN UpdateTxStateOn(table, n,
                               IF first[n] = "status1" THEN "Mined" ELSE "Failed",
                               redis[n])
          ELSE [table |-> table, outcome |-> "ok"]
        expired ==
          IF ShouldReplaceTxOn(observed.table, n, second[n], now)
          THEN UpdateTxStateOn(observed.table, n, "Expired", redis[n]).table
          ELSE observed.table
    IN IF observed.outcome = "blocked"
       THEN [table |-> observed.table, blocked |-> TRUE]
       ELSE SweepFrom(expired, order, i + 1, first, second, redis, now)

\* process_pending_txs(providers): the entries that are Pending in the
\* snapshot, in the order of the HashMap; without a provider for the chain
\* every entry is skipped
ProcessPendingTxs(m, has_provider, order, first, second, redis) ==
  /\ NonceFrame
  /\ ~txs_stuck[m]
  /\ LET r == IF has_provider
              THEN SweepFrom(pending_txs[m], order, 1, first, second, redis, tx_now)
              ELSE [table |-> pending_txs[m], blocked |-> FALSE]
     IN /\ pending_txs' = [pending_txs EXCEPT ![m] = r.table]
        /\ txs_stuck' = [txs_stuck EXCEPT ![m] = r.blocked]
        /\ last_result' = IF r.blocked THEN last_result
                          ELSE [kind |-> "sweep", task |-> 0, value |-> 0]
  /\ UNCHANGED <<redis_next, onchain, memory_cache, pc, op, local, issued, calls>>

\* a second passes
TickTx ==
  /\ SwpFrame
  /\ tx_now < MaxTxNow
  /\ tx_now' = tx_now + 1

\* ------------------------------------------------------ ProfitabilityGuard
\* An f64 amount of USD is an integer number of 0.00001 USD; the amounts that
\* are tried are multiples of 0.1 USD, so that the slippage (bps / 10 000) and
\* the haircut (percent / 100) divide exactly.
Usd(tenths) == tenths * 10000

ProfitabilityConfig(min_ev, haircut, bps) ==
  [min_ev_usd |-> Usd(min_ev), haircut_percentage |-> haircut, max_slippage_bps |-> bps]

\* the configurations tried: min_ev_usd 5.0 and 77.3, haircut 10 and 90 percent,
\* max_slippage_bps 20 and 10 000
GuardConfigs ==
  { ProfitabilityConfig(50, 10, 20), ProfitabilityConfig(50, 90, 20),
    ProfitabilityConfig(773, 10, 20), ProfitabilityConfig(50, 10, 10000) }

\* the arguments tried, in tenths of a USD
RawEvs == {0, 500, 1000}
GasCosts == {0, 100}
FlashFees == {0, 20}
BuilderTips == {0, 5}

NoEval ==
  [evaluated |-> FALSE, opportunity_id |-> NONE, config |-> ProfitabilityConfig(0, 0, 0),
   raw_ev_usd |-> 0, gas_cost_usd |-> 0, flash_fee_usd |-> 0,
   estimated_slippage_usd |-> 0, builder_tip_usd |-> 0, haircut_usd |-> 0,
   net_ev_usd |-> 0, is_profitable |-> FALSE]

\* ProfitabilityGuard::new(db_pool, config)
GuardInit ==
  /\ guard_config \in GuardConfigs
  /\ guard_eval = NoEval
  /\ guard_accepted = {}

\* raw_ev * (config.max_slippage_bps as f64 / 10_000.0)
SlippageUsd(config, raw_ev) == (raw_ev \div 10000) * config.max_slippage_bps

\* raw_ev * (config.haircut_percentage / 100.0)
HaircutUsd(config, raw_ev) == (raw_ev \div 100) * config.haircut_percentage

\* a guard that takes the haircut of what is left after the costs
NetEv_HaircutAfterCosts(config, raw_ev, gas_cost_usd, flash_fee_usd, builder_tip_usd) ==
  raw_ev - gas_cost_usd - flash_fee_usd - SlippageUsd(config, raw_ev) - builder_tip_usd
    - HaircutUsd(config, raw_ev - gas_cost_usd - flash_fee_usd)

\* raw_ev - gas_cost_usd - flash_fee_usd - slippage_usd - builder_tip_usd - haircut_usd
NetEv(config, raw_ev, gas_cost_usd, flash_fee_usd, builder_tip_usd) ==
  raw_ev - gas_cost_usd - flash_fee_usd - SlippageUsd(config, raw_ev) - builder_tip_usd
    - HaircutUsd(config, raw_ev)

\* is_profitable(opportunity, gas_cost_usd, flash_fee_usd, builder_tip_usd)
IsProfitable(id, raw_ev, gas_cost_usd, flash_fee_usd, builder_tip_usd) ==
  LET config == guard_config
      net_ev == NetEv(config, raw_ev, gas_cost_usd, flash_fee_usd, builder_tip_usd)
  IN /\ guard_eval' =
          [evaluated |-> TRUE, opportunity_id |-> id, config |-> config,
           raw_ev_usd |-> raw_ev, gas_cost_usd |-> gas_cost_usd,
           flash_fee_usd |-> flash_fee_usd,
           estimated_slippage_usd |-> SlippageUsd(config, raw_ev),
           builder_tip_usd |-> builder_tip_usd,
           haircut_usd |-> HaircutUsd(config, raw_ev),
           net_ev_usd |-> net_ev,
           is_profitable |-> (net_ev >= config.min_ev_usd)]
     /\ guard_accepted' = IF net_ev >= config.min_ev_usd
                          THEN guard_accepted \cup {id} ELSE guard_accepted
     /\ UNCHANGED guard_config
     /\ GuardFrame

\* update_config(new_config)
UpdateConfig(new_config) ==
  /\ GuardFrame
  /\ guard_config' = new_config
  /\ UNCHANGED <<guard_eval, guard_accepted>>

\* the row load_config_from_db reads: min_ev_usd in tenths of a USD, the
\* haircut in percent, max_slippage_bps as the INT of the query (an i32)
ProfitabilityConfigDb(min_ev, haircut, bps) ==
  [min_ev_usd |-> Usd(min_ev), haircut_percentage |-> haircut, max_slippage_bps |-> bps]

\* impl From<ProfitabilityConfigDb> for ProfitabilityConfig: `as u16` keeps
\* the low 16 bits of the i32
FromProfitabilityConfigDb(db) ==
  [min_ev_usd |-> db.min_ev_usd, haircut_percentage |-> db.haircut_percentage,
   max_slippage_bps |-> db.max_slippage_bps % 65536]

\* load_config_from_db: the query fails and the error is returned, or the
\* row is converted and installed by update_config
LoadConfigFromDb(db, ok) ==
  /\ GuardFrame
  /\ guard_config' = IF ok THEN FromProfitabilityConfigDb(db) ELSE guard_config
  /\ UNCHANGED <<guard_eval, guard_accepted>>

\* the rows and configurations tried for installation: thresholds of 5.0
\* and -5.0 USD, haircuts of 10 and -10 percent, and for max_slippage_bps
\* 20, the ends of the range and values of an i32 outside the u16 range
InstallMinEvs == {50, -50}
InstallHaircuts == {10, -10}
InstallBpsU16 == {20, 10000, 10001}
InstallBpsI32 == InstallBpsU16 \cup {70000, -1}

\* ----------------------------------------------------------------- Executor
\* the arms of execute_opportunity ("triangular-arb" and "atomic-arb" share the
\* arm of "dex-arb"; "nft-arb" stands for the strategies of the `_` arm)
Strategies ==
  {"dex-arb", "flash-loan-arb", "cross-chain-arb", "liquidation", "sandwich",
   "backrun", "jit-liquidity", "nft-arb"}

Relays == <<"flashbots", "bloxroute", "mev_share">>
RelaySet == {Relays[i] : i \in DOMAIN Relays}

\* Config: strategies.<s>.enabled, execution.private_mempool, execution.relays,
\* execution.{flashbots,bloxroute,mev_share}_enabled
ExecConfigs ==
  [enabled : {Strategies, {}},
   private_mempool : BOOLEAN,
   relays : {Relays},
   relay_enabled : {RelaySet, {"bloxroute"}, {}}]

\* Executor::new
ExecInit ==
  /\ exec_config \in ExecConfigs
  /\ nonce_tracker = 0
  /\ exec_sent = <<>>
  /\ exec_runs = 0

RECURSIVE FirstEnabledRelay(_, _)
\* send_private_transaction: send_to_<relay> of the first configured relay that
\* is enabled returns Ok; NONE when the loop ends without one
FirstEnabledRelay(relays, enabled) ==
  IF relays = <<>> THEN NONE
  ELSE IF Head(relays) \in enabled THEN Head(relays)
  ELSE FirstEnabledRelay(Tail(relays), enabled)

\* one send, as the history keeps it
Sent(strategy, channel, relay) ==
  [strategy |-> strategy, channel |-> channel, relay |-> relay,
   strategy_enabled |-> (strategy \in exec_config.enabled),
   gated |-> (strategy \in guard_accepted)]

ExecCalled ==
  /\ exec_runs < MaxExecRuns
  /\ exec_runs' = exec_runs + 1
  /\ UNCHANGED exec_config

\* send_private_transaction(tx, chain, config)
SendPrivate(strategy) ==
  LET relay == FirstEnabledRelay(exec_config.relays, exec_config.relay_enabled) IN
  IF relay = NONE THEN UNCHANGED exec_sent
  ELSE exec_sent' = Append(exec_sent, Sent(strategy, "private", relay))

\* execute_atomic_arbitrage: get_pending_executions leaves kit_de_armado None
ExecuteAtomicArbitrage ==
  /\ ExecFrame
  /\ ExecCalled
  /\ UNCHANGED <<nonce_tracker, exec_sent>>

\* execute_flashloan_arbitrage
ExecuteFlashloanArbitrage(provider_ok) ==
  /\ ExecFrame
  /\ ExecCalled
  /\ IF ~provider_ok THEN UNCHANGED <<nonce_tracker, exec_sent>>
     ELSE /\ nonce_tracker' = nonce_tracker + 1
          /\ SendPrivate("flash-loan-arb")

\* execute_cross_chain_arbitrage: n_sent of the two public sends succeed
ExecuteCrossChainArbitrage(provider_ok, n_sent) ==
  /\ ExecFrame
  /\ ExecCalled
  /\ UNCHANGED nonce_tracker
  /\ IF ~provider_ok \/ n_sent = 0 THEN UNCHANGED exec_sent
     ELSE IF n_sent = 1
     THEN exec_sent' = Append(exec_sent, Sent("cross-chain-arb", "public", NONE))
     ELSE exec_sent' = exec_sent \o << Sent("cross-chain-arb", "public", NONE),
                                      Sent("cross-chain-arb", "public", NONE) >>

\* execute_liquidation
ExecuteLiquidation(provider_ok, send_ok) ==
  /\ ExecFrame
  /\ ExecCalled
  /\ UNCHANGED nonce_tracker
  /\ IF ~provider_ok THEN UNCHANGED exec_sent
     ELSE IF exec_config.private_mempool THEN SendPrivate("liquidation")
     ELSE IF send_ok
     THEN exec_sent' = Append(exec_sent, Sent("liquidation", "public", NONE))
     ELSE UNCHANGED exec_sent

\* execute_sandwich: n_built of the two build_arbitrage_transaction calls
\* succeed (simulate_transaction can fail), each takes a nonce
ExecuteSandwich(n_built) ==
  /\ ExecFrame
  /\ ExecCalled
  /\ IF "sandwich" \notin exec_config.enabled
     THEN UNCHANGED <<nonce_tracker, exec_sent>>
     ELSE /\ nonce_tracker' = nonce_tracker + n_built
          /\ IF n_built = 2
             THEN exec_sent' = Append(exec_sent, Sent("sandwich", "bundle", "flashbots"))
             ELSE UNCHANGED exec_sent

\* execute_backrun
ExecuteBackrun(built) ==
  /\ ExecFrame
  /\ ExecCalled
  /\ IF ~built THEN UNCHANGED <<nonce_tracker, exec_sent>>
     ELSE /\ nonce_tracker' = nonce_tracker + 1
          /\ SendPrivate("backrun")

\* execute_jit_liquidity sending as execute_liquidation does when
\* private_mempool is off: through the public sender
ExecuteJitLiquidity_Public(provider_ok) ==
  /\ ExecFrame
  /\ ExecCalled
  /\ UNCHANGED nonce_tracker
  /\ IF ~provider_ok THEN UNCHANGED exec_sent
     ELSE IF exec_config.private_mempool
     THEN exec_sent' = Append(exec_sent, Sent("jit-liquidity", "bundle", "flashbots"))
     ELSE exec_sent' = Append(exec_sent, Sent("jit-liquidity", "public", NONE))

\* execute_jit_liquidity
ExecuteJitLiquidity(provider_ok) ==
  /\ ExecFrame
  /\ ExecCalled
  /\ UNCHANGED nonce_tracker
  /\ IF ~provider_ok THEN UNCHANGED exec_sent
     ELSE exec_sent' = Append(exec_sent, Sent("jit-liquidity", "bundle", "flashbots"))

\* the `_` arm: warn!("Unknown execution strategy")
ExecuteUnknown ==
  /\ ExecFrame
  /\ ExecCalled
  /\ UNCHANGED <<nonce_tracker, exec_sent>>

\* execute_opportunity(execution): match execution.strategy
ExecuteOpportunity(strategy) ==
  \/ strategy = "dex-arb" /\ ExecuteAtomicArbitrage
  \/ strategy = "flash-loan-arb" /\ \E ok \in BOOLEAN : ExecuteFlashloanArbitrage(ok)
  \/ strategy = "cross-chain-arb"
       /\ \E ok \in BOOLEAN, n \in 0 .. 2 : ExecuteCrossChainArbitrage(ok, n)
  \/ strategy = "liquidation" /\ \E ok, sent \in BOOLEAN : ExecuteLiquidation(ok, sent)
  \/ strategy = "sandwich" /\ \E n \in 0 .. 2 : ExecuteSandwich(n)
  \/ strategy = "backrun" /\ \E ok \in BOOLEAN : ExecuteBackrun(ok)
  \/ strategy = "jit-liquidity" /\ \E ok \in BOOLEAN : ExecuteJitLiquidity(ok)
  \/ strategy = "nft-arb" /\ ExecuteUnknown

\* ------------------------------------------------------ OpportunityDetector
\* An f64 amount of USD is an integer number of 0.001 USD. A score that has a
\* fractional part (profit_score, total_score) is kept as a numerator over the
\* denominator `den` (the min_profit of the strategy).

\* the rows the producers insert: the columns that the scores read
Catalog ==
  [ o1 |-> [strategy |-> "dex-arb", base_token |-> "WETH", quote_token |-> "USDC",
            est_profit_usd |-> 100000, gas_usd |-> 10000],
    o2 |-> [strategy |-> "dex-arb", base_token |-> "BAD", quote_token |-> "USDC",
            est_profit_usd |-> 100000, gas_usd |-> 10000],
    o3 |-> [strategy |-> "dex-arb", base_token |-> "WETH", quote_token |-> "USDC",
            est_profit_usd |-> 100000, gas_usd |-> 10000],
    o4 |-> [strategy |-> "dex-arb", base_token |-> "WETH", quote_token |-> "USDC",
            est_profit_usd |-> 100001, gas_usd |-> 10000],
    o5 |-> [strategy |-> "sandwich", base_token |-> "USDC", quote_token |-> "BAD",
            est_profit_usd |-> 1000, gas_usd |-> 10000] ]

OppIds == DOMAIN Catalog

\* the steps of the clock, in ms
ClockSteps == {100, 10000}

\* Config: strategies.<s>.min_roi (0.02), risk.whitelisted_tokens,
\* risk.blacklisted_tokens, execution.max_concurrent_trades
DetConfig ==
  [min_roi_x1000 |-> 20000, whitelisted_tokens |-> {"WETH"},
   blacklisted_tokens |-> {"BAD"}, max_concurrent_trades |-> MaxConcurrentTrades]

\* OpportunityDetector::new; the table is empty
DetInit ==
  /\ det_config = DetConfig
  /\ det_db = EmptyMap
  /\ det_now = 0
  /\ priority_queue = EmptyMap
  /\ opportunity_scores = EmptyMap
  /\ det_drained = <<>>
  /\ det_steps = 0

Min(a, b) == IF a < b THEN a ELSE b
Max(a, b) == IF a > b THEN a ELSE b

\* calculate_profit_score: min_profit of the strategy
MinProfit(opp, config) ==
  CASE opp.strategy = "sandwich" -> 50000
    [] opp.strategy \in {"dex-arb", "flash-loan-arb", "triangular-arb",
                         "cross-chain-arb", "liquidation", "backrun", "jit-liquidity",
                         "cex-dex-arb", "nft-arb", "mev-share", "atomic-arb",
                         "statistical-arb"}
         -> config.min_roi_x1000
    [] OTHER -> 10000

\* calculate_profit_score, times MinProfit: (profit_multiple.min(5) * 20).min(100)
ProfitScoreNum(opp, config) ==
  LET net_profit == opp.est_profit_usd - opp.gas_usd
      den == MinProfit(opp, config)
  IN IF net_profit <= 0 THEN 0
     ELSE Min(Min(net_profit, 5 * den) * 20, 100 * den)

\* a risk score that returns the bonus of the whitelist unclamped and looks
\* at the blacklist for the base token only
RiskScore_Unclamped(opp, config) ==
  LET bonus == (IF opp.base_token \in config.whitelisted_tokens THEN 10 ELSE 0)
               + (IF opp.quote_token \in config.whitelisted_tokens THEN 10 ELSE 0)
  IN IF opp.base_token \in config.blacklisted_tokens THEN 0 ELSE 100 + bonus

\* calculate_risk_score
RiskScore(opp, config) ==
  LET gas_penalty == IF opp.gas_usd > 100000 THEN 20
                     ELSE IF opp.gas_usd > 50000 THEN 10 ELSE 0
      strategy_penalty ==
        CASE opp.strategy = "sandwich" -> 30
          [] opp.strategy = "cross-chain-arb" -> 20
          [] opp.strategy = "liquidation" -> 15
          [] opp.strategy = "nft-arb" -> 25
          [] OTHER -> 0
      bonus == (IF opp.base_token \in config.whitelisted_tokens THEN 10 ELSE 0)
               + (IF opp.quote_token \in config.whitelisted_tokens THEN 10 ELSE 0)
      risk_score == 100 - gas_penalty - strategy_penalty + bonus
  IN IF opp.base_token \in config.blacklisted_tokens
        \/ opp.quote_token \in config.blacklisted_tokens
     THEN 0
     ELSE Min(Max(risk_score, 0), 100)

\* calculate_gas_efficiency_score: est_profit_usd / gas_usd.max(1.0)
GasEfficiencyScore(opp) ==
  LET g == Max(opp.gas_usd, 1000)
      p == opp.est_profit_usd
  IN IF p > 10 * g THEN 100
     ELSE IF p > 5 * g THEN 80
     ELSE IF p > 3 * g THEN 60
     ELSE IF p > 2 * g THEN 40
     ELSE IF 2 * p > 3 * g THEN 20
     ELSE 0

\* calculate_timing_score: age_ms = now - opp.ts
TimingScore(ts, now) ==
  LET age_ms == now - ts
  IN IF age_ms < 100 THEN 100
     ELSE IF age_ms < 500 THEN 80
     ELSE IF age_ms < 1000 THEN 60
     ELSE IF age_ms < 5000 THEN 40
     ELSE IF age_ms < 10000 THEN 20
     ELSE 0

\* calculate_opportunity_score: total_score_num / (10 * den) is
\* profit * 0.4 + risk * 0.3 + gas_efficiency * 0.2 + timing * 0.1
CalculateOpportunityScore(opp, id, ts, now, config) ==
  LET den == MinProfit(opp, config)
      profit_num == ProfitScoreNum(opp, config)
      risk == RiskScore(opp, config)
      gas == GasEfficiencyScore(opp)
      timing == TimingScore(ts, now)
  IN [opportunity_id |-> id, den |-> den,
      total_score_num |-> 4 * profit_num + (3 * risk + 2 * gas + timing) * den,
      profit_score_num |-> profit_num, risk_score |-> risk,
      gas_efficiency_score |-> gas, timing_score |-> timing]

\* the score of a row of the table
OpportunityScore(id, ts, now, config) ==
  CalculateOpportunityScore(Catalog[id], id, ts, now, config)

\* (score.total_score * 1000.0) as i32: the cast truncates. total * 1000 is
\* total_score_num / (den / 100), and every den here is a multiple of 100
Priority(score) == score.total_score_num \div (score.den \div 100)

\* what the cast of Priority cuts off, as a numerator over den / 100
PriorityRest(score) == score.total_score_num % (score.den \div 100)

\* OpportunityScore: total_score of a above that of b, and equal to it
TotalGt(a, b) ==
  \/ Priority(a) > Priority(b)
  \/ /\ Priority(a) = Priority(b)
     /\ PriorityRest(a) * (b.den \div 100) > PriorityRest(b) * (a.den \div 100)

TotalEq(a, b) ==
  /\ Priority(a) = Priority(b)
  /\ PriorityRest(a) * (b.den \div 100) = PriorityRest(b) * (a.den \div 100)

\* process_opportunities: every row of the table is scored, pushed (push
\* replaces the priority of an id that is queued) and its score stored
ProcessedScores(db, now, config) ==
  [id \in DOMAIN db |-> OpportunityScore(id, db[id].ts, now, config)]

ProcessedQueue(queue, scores) ==
  [id \in DOMAIN queue \cup DOMAIN scores |->
     IF id \in DOMAIN scores THEN Priority(scores[id]) ELSE queue[id]]

MergedScores(old, new) ==
  [id \in DOMAIN old \cup DOMAIN new |-> IF id \in DOMAIN new THEN new[id] ELSE old[id]]

\* PriorityQueue::pop returns an item of the greatest priority; which one of
\* several is left to the heap
PopCandidates(queue) ==
  {id \in DOMAIN queue : \A other \in DOMAIN queue : queue[other] <= queue[id]}

\* what one pop looked like: the item, and what was waiting beside it
Popped(id, outcome, queue, db, scores, now, config) ==
  [id |-> id, priority |-> queue[id], outcome |-> outcome,
   timing_score |-> scores[id].timing_score,
   age_ms |-> now - db[id].ts,
   blacklisted |-> (Catalog[id].base_token \in config.blacklisted_tokens
                    \/ Catalog[id].quote_token \in config.blacklisted_tokens),
   higher_waiting |->
     (\E other \in DOMAIN queue \ {id} : TotalGt(scores[other], scores[id])),
   older_tie_waiting |->
     (\E other \in DOMAIN queue \ {id} :
        TotalEq(scores[other], scores[id]) /\ db[other].ts < db[id].ts)]

\* mark_opportunity_pending: metadata.status = "pending", ts = now
MarkPending(db, id, now) == [db EXCEPT ![id] = [ts |-> now, pending |-> TRUE]]

RECURSIVE ExecuteTop(_, _, _, _, _, _, _)
\* execute_top_opportunities: the loop, as the set of its possible results
\* (the pop among equal priorities and the failure of mark_opportunity_pending
\* are not decided by the detector)
ExecuteTop(queue, db, executed_count, log, scores, now, config) ==
  IF executed_count >= config.max_concurrent_trades \/ DOMAIN queue = {}
  THEN {[queue |-> queue, db |-> db, log |-> log]}
  ELSE UNION {
    LET rest == MapRemove(queue, id)
        entry(outcome) == Popped(id, outcome, queue, db, scores, now, config)
    IN IF queue[id] <= 0
       THEN {[queue |-> rest, db |-> db, log |-> Append(log, entry("break"))]}
       ELSE ExecuteTop(rest, MarkPending(db, id, now), executed_count + 1,
                       Append(log, entry("executed")), scores, now, config)
            \cup
            ExecuteTop(rest, db, executed_count,
                       Append(log, entry("mark_failed")), scores, now, config)
    : id \in PopCandidates(queue) }

\* insert_opportunity: INSERT ... ON CONFLICT (id) DO UPDATE
InsertOpportunity(id) ==
  /\ DetFrame
  /\ det_steps < MaxDetSteps
  /\ det_steps' = det_steps + 1
  /\ det_db' = MapInsert(det_db, id, [ts |-> det_now, pending |-> FALSE])
  /\ UNCHANGED <<det_config, det_now, priority_queue, opportunity_scores, det_drained>>

\* time passes
AdvanceClock(d) ==
  /\ DetFrame
  /\ det_steps < MaxDetSteps
  /\ det_steps' = det_steps + 1
  /\ det_now' = det_now + d
  /\ UNCHANGED <<det_config, det_db, priority_queue, opportunity_scores, det_drained>>

\* one turn of the loop of run: process_opportunities (fetched: the SELECT
\* succeeds), then execute_top_opportunities
RunIteration(fetched) ==
  LET new_scores == IF fetched THEN ProcessedScores(det_db, det_now, det_config)
                    ELSE EmptyMap
      scores == MergedScores(opportunity_scores, new_scores)
      queue == ProcessedQueue(priority_queue, new_scores)
  IN \E result \in ExecuteTop(queue, det_db, 0, <<>>, scores, det_now, det_config) :
       /\ opportunity_scores' = scores
       /\ priority_queue' = result.queue
       /\ det_db' = result.db
       /\ det_drained' = result.log
       /\ UNCHANGED <<det_config, det_now, det_steps>>
       /\ DetFrame

\* ------------------------------------------- calculate_opportunity_score alone
\* the opportunities a score is asked for: strategy, tokens, est_profit_usd and
\* gas_usd (in 0.001 USD) and age (ms) over the values where the scores change
ScoreStrategies == {"dex-arb", "sandwich", "nft-arb", "other"}
ScoreTokens == {"WETH", "USDC", "BAD"}
ScoreProfits == {0, 1000, 30000, 100000, 700000}
ScoreGas == {0, 500, 10000, 60000, 120000}
ScoreAges == {0, 100, 5000, 10000}

ScoreInputs ==
  [opp : [strategy : ScoreStrategies, base_token : ScoreTokens,
          quote_token : {"WETH", "BAD"}, est_profit_usd : ScoreProfits,
          gas_usd : ScoreGas],
   age_ms : ScoreAges]

NoScore ==
  [opportunity_id |-> NONE, den |-> 1, total_score_num |-> 0, profit_score_num |-> 0,
   risk_score |-> 0, gas_efficiency_score |-> 0, timing_score |-> 0]

ScoreInit ==
  /\ score_input \in ScoreInputs
  /\ score_result = NoScore

ScoreIdle ==
  /\ score_input = [opp |-> Catalog.o1, age_ms |-> 0]
  /\ score_result = NoScore

\* calculate_opportunity_score(opp) under the configuration of the detector
ScoreOpportunity ==
  /\ ScoreFrame
  /\ score_result.opportunity_id = NONE
  /\ score_result' = CalculateOpportunityScore(score_input.opp, "scored", 0,
                                                score_input.age_ms, DetConfig)
  /\ UNCHANGED score_input

\* the next opportunity is handed to calculate_opportunity_score
ScoreNext(input) ==
  /\ ScoreFrame
  /\ score_result.opportunity_id # NONE
  /\ score_input' = input
  /\ score_result' = NoScore

\* ------------------------------------- Executor::send_private_transaction alone
\* the relays the match of send_private_transaction knows, and the names that
\* execution.relays is filled with ("public" falls to the `_` arm)
KnownRelays == {"flashbots", "bloxroute", "mev_share"}
RelayNames == KnownRelays \cup {"public"}

RelayLists == UNION {[1 .. n -> RelayNames] : n \in 0 .. MaxRelays}

DispConfigs == [relays : RelayLists, enabled : SUBSET KnownRelays]

Running == [state |-> "running", relay |-> NONE, ticket |-> 0]

DispInit ==
  /\ disp_config \in DispConfigs
  /\ disp_pos = 1
  /\ disp_log = <<>>
  /\ disp_last_error = NONE
  /\ disp_result = Running

DispIdle ==
  /\ disp_config = [relays |-> <<>>, enabled |-> {}]
  /\ disp_pos = 1
  /\ disp_log = <<>>
  /\ disp_last_error = NONE
  /\ disp_result = Running

\* the arm of the relay is taken and its <relay>_enabled flag is set
Usable(relay) == relay \in KnownRelays /\ relay \in disp_config.enabled

\* the loop is at a relay
AtRelay ==
  /\ disp_result.state = "running"
  /\ disp_pos <= Len(disp_config.relays)

\* a send_to_<relay> that keeps the hash of a success and goes on with the loop
DispContact_KeepsGoing(ok) ==
  LET relay == disp_config.relays[disp_pos] IN
  /\ DispFrame
  /\ AtRelay
  /\ Usable(relay)
  /\ disp_log' = Append(disp_log, [relay |-> relay, channel |-> "private", ok |-> ok])
  /\ disp_pos' = disp_pos + 1
  /\ disp_last_error' = IF ok THEN disp_last_error ELSE relay
  /\ UNCHANGED <<disp_config, disp_result>>

\* match self.send_to_<relay>(tx.clone(), chain).await: Ok(hash) returns the
\* hash, Err(e) is logged, kept in last_error and the loop goes on
DispContact(ok) ==
  LET relay == disp_config.relays[disp_pos] IN
  /\ DispFrame
  /\ AtRelay
  /\ Usable(relay)
  /\ disp_log' = Append(disp_log, [relay |-> relay, channel |-> "private", ok |-> ok])
  /\ IF ok
     THEN /\ disp_result' = [state |-> "ok", relay |-> relay, ticket |-> disp_pos]
          /\ UNCHANGED <<disp_pos, disp_last_error>>
     ELSE /\ disp_pos' = disp_pos + 1
          /\ disp_last_error' = relay
          /\ UNCHANGED disp_result
  /\ UNCHANGED disp_config

\* a relay whose flag is off, or the `_` arm: nothing is sent to it
DispSkip ==
  /\ DispFrame
  /\ AtRelay
  /\ ~Usable(disp_config.relays[disp_pos])
  /\ disp_pos' = disp_pos + 1
  /\ UNCHANGED <<disp_config, disp_log, disp_last_error, disp_result>>

\* after the loop: Err("All private relays failed") or
\* Err("No private relays enabled or configured")
DispFinish ==
  /\ DispFrame
  /\ disp_result.state = "running"
  /\ disp_pos > Len(disp_config.relays)
  /\ disp_result' = [state |-> IF disp_last_error # NONE THEN "all_failed"
                                ELSE "none_enabled",
                      relay |-> NONE, ticket |-> 0]
  /\ UNCHANGED <<disp_config, disp_pos, disp_log, disp_last_error>>

\* ------------------------------------------- bundle senders (bundle_senders)
\* an endpoint is the sequence of its characters
HttpsPrefix == <<"h", "t", "t", "p", "s", ":", "/", "/">>
HttpPrefix == <<"h", "t", "t", "p", ":", "/", "/">>

\* str::starts_with
StartsWith(s, prefix) ==
  /\ Len(s) >= Len(prefix)
  /\ \A i \in 1 .. Len(prefix) : s[i] = prefix[i]

\* the endpoints create_sender is called with
Endpoints ==
  { HttpsPrefix \o <<"r">>,                          \* https://r
    HttpsPrefix,                                     \* https://
    HttpPrefix \o <<"r">>,                           \* http://r
    HttpPrefix,                                      \* http://
    <<"h", "t", "t", "p", "s", ":", "/", "r">>,      \* https:/r
    <<"h", "t", "t", "p", "s">>,                     \* https
    <<"H", "T", "T", "P", "S", ":", "/", "/", "r">>, \* HTTPS://r
    <<"x">> \o HttpsPrefix \o <<"r">>,               \* xhttps://r
    <<"w", "s", "s", ":", "/", "/", "r">>,           \* wss://r
    <<"r">>,                                         \* r
    <<>> }

PrivateRelayTypes == {"Flashbots", "Eden", "MevShare"}
RelayTypes == PrivateRelayTypes \cup {"Public"}

NoSender == [relay_type |-> NONE, endpoint |-> <<>>]
NoCall == [relay_type |-> NONE, endpoint |-> <<>>, client_built |-> TRUE]
NoResult == [state |-> NONE, tx_hash |-> NONE]

\* FlashbotsSender::new accepting what PublicSender::new accepts
FlashbotsSender_new_Http(endpoint) ==
  StartsWith(endpoint, HttpPrefix) \/ StartsWith(endpoint, HttpsPrefix)

\* FlashbotsSender::new
FlashbotsSender_new(endpoint) == StartsWith(endpoint, HttpsPrefix)

\* EdenSender::new: the endpoint check, then reqwest's Client is built
EdenSender_new(endpoint, client_built) ==
  StartsWith(endpoint, HttpsPrefix) /\ client_built

\* MevShareSender::new: the endpoint check, then reqwest's Client is built
MevShareSender_new(endpoint, client_built) ==
  StartsWith(endpoint, HttpsPrefix) /\ client_built

\* PublicSender::new
PublicSender_new(endpoint) ==
  StartsWith(endpoint, HttpPrefix) \/ StartsWith(endpoint, HttpsPrefix)

SndInit ==
  /\ snd_new = NoCall
  /\ snd_sender = NoSender
  /\ snd_bundle = <<>>
  /\ snd_requests = <<>>
  /\ snd_result = NoResult

SndIdle == SndInit

\* create_sender(config): Ok(sender) or Err
CreateSender(relay_type, endpoint, client_built) ==
  /\ SndFrame
  /\ snd_new' = [relay_type |-> relay_type, endpoint |-> endpoint,
                 client_built |-> client_built]
  /\ LET ok == CASE relay_type = "Flashbots" -> FlashbotsSender_new(endpoint)
                 [] relay_type = "MevShare" -> MevShareSender_new(endpoint, client_built)
                 [] relay_type = "Eden" -> EdenSender_new(endpoint, client_built)
                 [] relay_type = "Public" -> PublicSender_new(endpoint)
     IN snd_sender' = IF ok THEN [relay_type |-> relay_type, endpoint |-> endpoint]
                      ELSE NoSender
  /\ snd_bundle' = <<>>
  /\ snd_requests' = <<>>
  /\ snd_result' = NoResult

\* the transactions a bundle is made of, and TypedTransaction::hash
SndTxs == {"tx1", "tx2", "tx3"}
Hash(tx) == <<"hash", tx>>
Bundles ==
  {b \in UNION {[1 .. n -> SndTxs] : n \in 0 .. MaxBundle} :
     \A i, j \in DOMAIN b : b[i] = b[j] => i = j}

Request(kind, txs, ok) == [op |-> kind, txs |-> txs, ok |-> ok]
Ok(tx) == [state |-> "ok", tx_hash |-> Hash(tx)]
Err(why) == [state |-> why, tx_hash |-> NONE]

\* outcomes of a simulation: the relay answers success, answers
\* success = false, the request fails, or signing fails before any request
SimOutcomes == {"ok", "unsuccessful", "err", "sign_err"}
\* outcomes of a submission: a bundle hash, a response without one, an error
SubmitOutcomes == {"ok", "no_hash", "err"}
\* outcomes of PublicSender::send_transaction: Ok, the send fails, or the
\* send succeeds and the congestion estimate that follows it fails
SendOutcomes == {"ok", "send_err", "congestion_err"}

\* what send_bundle returns once the bundle has been submitted
FirstTx(txs) == IF txs = <<>> THEN Err("empty_bundle") ELSE Ok(txs[1])

SendBundleCall(relay_type, txs) ==
  /\ SndFrame
  /\ snd_sender.relay_type = relay_type
  /\ snd_bundle' = txs
  /\ UNCHANGED <<snd_new, snd_sender>>

\* FlashbotsSender::send_bundle: middleware, signatures and block number,
\* then the bundle is submitted
FlashbotsSendBundle(txs, prepared, submit) ==
  /\ SendBundleCall("Flashbots", txs)
  /\ IF ~prepared
       THEN snd_requests' = <<>> /\ snd_result' = Err("prepare")
       ELSE /\ snd_requests' = <<Request("submit", txs, submit = "ok")>>
            /\ snd_result' = CASE submit = "err" -> Err("submit")
                               [] submit = "no_hash" -> Err("no_hash")
                               [] OTHER -> FirstTx(txs)

\* simulate_bundle(txs)?, then the submission, then txs.first()
SimulateThenSubmit(txs, sim, submit) ==
  CASE sim = "sign_err" ->
         snd_requests' = <<>> /\ snd_result' = Err("sign")
    [] sim \in {"err", "unsuccessful"} ->
         /\ snd_requests' = <<Request("simulate", txs, FALSE)>>
         /\ snd_result' = Err("simulation")
    [] OTHER ->
         /\ snd_requests' = <<Request("simulate", txs, TRUE),
                              Request("submit", txs, submit = "ok")>>
         /\ snd_result' = IF submit = "ok" THEN FirstTx(txs) ELSE Err("submit")

\* EdenSender::send_bundle
EdenSendBundle(txs, sim, submit) ==
  /\ SendBundleCall("Eden", txs)
  /\ SimulateThenSubmit(txs, sim, submit)

\* MevShareSender::send_bundle
MevShareSendBundle(txs, sim, submit) ==
  /\ SendBundleCall("MevShare", txs)
  /\ SimulateThenSubmit(txs, sim, submit)

\* PublicSender::send_transaction(tx): the requests it makes
SendTransactionRequests(tx, out) ==
  CASE out = "send_err" -> <<Request("send_tx", <<tx>>, FALSE)>>
    [] out = "congestion_err" -> <<Request("send_tx", <<tx>>, TRUE),
                                   Request("get_block", <<tx>>, FALSE)>>
    [] OTHER -> <<Request("send_tx", <<tx>>, TRUE),
                  Request("get_block", <<tx>>, TRUE)>>

\* the requests of the loop over txs[from ..]
RECURSIVE SendEach(_, _, _)
SendEach(txs, outs, from) ==
  IF from > Len(txs) THEN <<>>
  ELSE SendTransactionRequests(txs[from], outs[from]) \o SendEach(txs, outs, from + 1)

\* results: the transactions whose send_transaction returned Ok, in order
Results(txs, outs) ==
  LET RECURSIVE Collect(_)
      Collect(i) == IF i > Len(txs) THEN <<>>
                    ELSE (IF outs[i] = "ok" THEN <<txs[i]>> ELSE <<>>) \o Collect(i + 1)
  IN Collect(1)

\* PublicSender::send_bundle: every tx is sent on its own, results.remove(0)
PublicSendBundle(txs, outs) ==
  /\ SendBundleCall("Public", txs)
  /\ IF txs = <<>>
       THEN snd_requests' = <<>> /\ snd_result' = Err("empty_bundle")
       ELSE /\ snd_requests' = SendEach(txs, outs, 1)
            /\ LET results == Results(txs, outs)
               IN snd_result' = IF results = <<>> THEN Err("all_failed")
                                ELSE Ok(results[1])

\* ------------------------------- CircuitBreaker and RpcManager::get_provider
\* CircuitBreaker::new: the thresholds and the open period (seconds)
failure_threshold == 5
success_threshold == 3
timeout == 60

\* the clock is followed up to MaxElapsed seconds after a state change, at
\* most MaxTrials admissions are followed between two recorded outcomes and
\* at most MaxRequests providers are handed out
MaxElapsed == 61
MaxTrials == 2
MaxRequests == 2

CircuitState == {"Closed", "Open", "HalfOpen"}

NoBreakerCall == [call |-> "none", before |-> "Closed", allowed |-> FALSE, elapsed |-> 0]

BreakerCall(call, allowed) ==
  [call |-> call, before |-> cb_state, allowed |-> allowed, elapsed |-> cb_elapsed]

\* CircuitBreaker::new, and an RpcConnection as RpcManager::new builds it
CbInit ==
  /\ cb_state = "Closed"
  /\ cb_failure_count = 0
  /\ cb_success_count = 0
  /\ cb_elapsed = 0
  /\ cb_fail_run = 0
  /\ cb_ok_run = 0
  /\ cb_trials = 0
  /\ cb_last = NoBreakerCall
  /\ rpc_is_healthy = TRUE
  /\ rpc_request_count = 0
  /\ rpc_acquired = NONE

CbIdle == CbInit

\* record_success with the Closed arm left empty
RecordSuccess_KeepsCount ==
  /\ CbFrame
  /\ CASE cb_state = "HalfOpen" ->
            IF cb_success_count + 1 >= success_threshold
              THEN /\ cb_state' = "Closed"
                   /\ cb_failure_count' = 0
                   /\ cb_success_count' = 0
                   /\ cb_elapsed' = 0
              ELSE /\ cb_success_count' = cb_success_count + 1
                   /\ UNCHANGED <<cb_state, cb_failure_count, cb_elapsed>>
       [] OTHER ->
            UNCHANGED <<cb_state, cb_failure_count, cb_success_count, cb_elapsed>>
  /\ cb_fail_run' = 0
  /\ cb_ok_run' = IF cb_state = "HalfOpen" THEN cb_ok_run + 1 ELSE 0
  /\ cb_trials' = 0
  /\ cb_last' = BreakerCall("success", FALSE)
  /\ UNCHANGED <<rpc_is_healthy, rpc_request_count, rpc_acquired>>

\* record_success
RecordSuccess ==
  /\ CbFrame
  /\ CASE cb_state = "HalfOpen" ->
            IF cb_success_count + 1 >= success_threshold
              THEN /\ cb_state' = "Closed"
                   /\ cb_failure_count' = 0
                   /\ cb_success_count' = 0
                   /\ cb_elapsed' = 0
              ELSE /\ cb_success_count' = cb_success_count + 1
                   /\ UNCHANGED <<cb_state, cb_failure_count, cb_elapsed>>
       [] cb_state = "Closed" ->
            /\ cb_failure_count' = 0
            /\ UNCHANGED <<cb_state, cb_success_count, cb_elapsed>>
       [] OTHER ->
            UNCHANGED <<cb_state, cb_failure_count, cb_success_count, cb_elapsed>>
  /\ cb_fail_run' = 0
  /\ cb_ok_run' = IF cb_state = "HalfOpen" THEN cb_ok_run + 1 ELSE 0
  /\ cb_trials' = 0
  /\ cb_last' = BreakerCall("success", FALSE)
  /\ UNCHANGED <<rpc_is_healthy, rpc_request_count, rpc_acquired>>

\* record_failure with the HalfOpen arm keeping success_count
RecordFailure_KeepsSuccesses ==
  /\ CbFrame
  /\ CASE cb_state = "Closed" ->
            /\ cb_failure_count' = cb_failure_count + 1
            /\ IF cb_failure_count + 1 >= failure_threshold
                 THEN cb_state' = "Open" /\ cb_elapsed' = 0
                 ELSE UNCHANGED <<cb_state, cb_elapsed>>
            /\ UNCHANGED cb_success_count
       [] cb_state = "HalfOpen" ->
            /\ cb_state' = "Open"
            /\ cb_elapsed' = 0
            /\ UNCHANGED <<cb_failure_count, cb_success_count>>
       [] OTHER ->
            UNCHANGED <<cb_state, cb_failure_count, cb_success_count, cb_elapsed>>
  /\ cb_fail_run' = Min(cb_fail_run + 1, failure_threshold)
  /\ cb_ok_run' = 0
  /\ cb_trials' = 0
  /\ cb_last' = BreakerCall("failure", FALSE)
  /\ UNCHANGED <<rpc_is_healthy, rpc_request_count, rpc_acquired>>

\* record_failure
RecordFailure ==
  /\ CbFrame
  /\ CASE cb_state = "Closed" ->
            /\ cb_failure_count' = cb_failure_count + 1
            /\ IF cb_failure_count + 1 >= failure_threshold
                 THEN cb_state' = "Open" /\ cb_elapsed' = 0
                 ELSE UNCHANGED <<cb_state, cb_elapsed>>
            /\ UNCHANGED cb_success_count
       [] cb_state = "HalfOpen" ->
            /\ cb_state' = "Open"
            /\ cb_success_count' = 0
            /\ cb_elapsed' = 0
            /\ UNCHANGED cb_failure_count
       [] OTHER ->
            UNCHANGED <<cb_state, cb_failure_count, cb_success_count, cb_elapsed>>
  /\ cb_fail_run' = Min(cb_fail_run + 1, failure_threshold)
  /\ cb_ok_run' = 0
  /\ cb_trials' = 0
  /\ cb_last' = BreakerCall("failure", FALSE)
  /\ UNCHANGED <<rpc_is_healthy, rpc_request_count, rpc_acquired>>

\* should_allow_request: the open period is over when elapsed() > timeout
ShouldAllowRequest ==
  /\ CbFrame
  /\ cb_trials < MaxTrials
  /\ LET expired == cb_state = "Open" /\ cb_elapsed > timeout
         allowed == cb_state # "Open" \/ expired
     IN /\ IF expired
             THEN cb_state' = "HalfOpen" /\ cb_elapsed' = 0 /\ cb_ok_run' = 0
             ELSE UNCHANGED <<cb_state, cb_elapsed, cb_ok_run>>
        /\ cb_trials' = IF allowed /\ (expired \/ cb_state = "HalfOpen")
                          THEN cb_trials + 1 ELSE cb_trials
        /\ cb_last' = BreakerCall("allow", allowed)
  /\ UNCHANGED <<cb_failure_count, cb_success_count, cb_fail_run,
                 rpc_is_healthy, rpc_request_count, rpc_acquired>>

\* time passes between two calls: half the open period, or a second more
TickSteps == {30, 31}

TickCb(d) ==
  /\ CbFrame
  /\ cb_elapsed + d <= MaxElapsed
  /\ cb_elapsed' = cb_elapsed + d
  /\ UNCHANGED <<cb_state, cb_failure_count, cb_success_count, cb_fail_run,
                 cb_ok_run, cb_trials, cb_last,
                 rpc_is_healthy, rpc_request_count, rpc_acquired>>

\* RpcManager::check_health on the endpoint: one probe sets is_healthy
RpcCheckHealth(ok) ==
  /\ CbFrame
  /\ rpc_is_healthy' = ok
  /\ UNCHANGED <<cb_state, cb_failure_count, cb_success_count, cb_elapsed,
                 cb_fail_run, cb_ok_run, cb_trials, cb_last,
                 rpc_request_count, rpc_acquired>>

\* RpcManager::get_provider over the one endpoint of the chain: 2 * len
\* attempts, each skipping the endpoint when it is not healthy or when its
\* rate limiter has no permit (permits[i] for attempt i)
GetProvider(permits) ==
  /\ CbFrame
  /\ rpc_request_count < MaxRequests
  /\ LET found == rpc_is_healthy /\ (\E i \in 1..Len(permits) : permits[i])
     IN /\ rpc_acquired' = IF found THEN "endpoint" ELSE "err"
        /\ rpc_request_count' = IF found THEN rpc_request_count + 1
                                ELSE rpc_request_count
  /\ UNCHANGED <<cb_state, cb_failure_count, cb_success_count, cb_elapsed,
                 cb_fail_run, cb_ok_run, cb_trials, cb_last, rpc_is_healthy>>

\* ------------------------------------------------ HealthChecker::check_quorum
\* at most MaxProviders providers are asked
MaxProviders == 4

\* what the operation returns on one provider: Ok(value) or Err
OkResult(v) == [ok |-> TRUE, value |-> v]
ErrResult == [ok |-> FALSE, value |-> 0]
QuorumValues == {98, 99, 100}
QuorumResults == {OkResult(v) : v \in QuorumValues} \cup {ErrResult}

NoOutcome == [kind |-> "none", value |-> 0]
QIdle == q_results = <<>> /\ q_outcome = NoOutcome

\* format!("{:?}", value) of an unsigned integer: its decimal digits
RECURSIVE DebugFormat(_)
DebugFormat(v) ==
  IF v < 10 THEN <<v>> ELSE Append(DebugFormat(v \div 10), v % 10)

\* required_agreements computed as len * 2 / 3
RequiredAgreements_Floor(n) == (n * 2) \div 3

\* required_agreements
RequiredAgreements(n) == (n * 2 + 2) \div 3

\* response_counts after the results from position i on were counted: the
\* failed results are passed over, the others are counted under their key
RECURSIVE ResponseCounts(_, _, _)
ResponseCounts(results, i, counts) ==
  IF i > Len(results) THEN counts
  ELSE IF ~results[i].ok THEN ResponseCounts(results, i + 1, counts)
  ELSE LET key == DebugFormat(results[i].value)
       IN IF key \in DOMAIN counts
            THEN ResponseCounts(results, i + 1,
                   [counts EXCEPT ![key].count = counts[key].count + 1])
            ELSE ResponseCounts(results, i + 1,
                   [k \in DOMAIN counts \cup {key} |->
                      IF k = key THEN [count |-> 1, value |-> results[i].value]
                      ELSE counts[k]])

\* check_quorum: max_by_key runs over a HashMap, so among the keys with the
\* greatest count any may be the one it returns
CheckQuorum ==
  /\ QFrame
  /\ q_outcome = NoOutcome
  /\ UNCHANGED q_results
  /\ IF q_results = <<>>
       THEN q_outcome' = [kind |-> "err", value |-> 0]
       ELSE LET counts == ResponseCounts(q_results, 1, <<>>)
                required_agreements == RequiredAgreements(Len(q_results))
            IN IF DOMAIN counts = {}
                 THEN q_outcome' = [kind |-> "err", value |-> 0]
                 ELSE \E key \in DOMAIN counts :
                        /\ \A k \in DOMAIN counts : counts[k].count <= counts[key].count
                        /\ q_outcome' =
                             IF counts[key].count >= required_agreements
                               THEN [kind |-> "ok", value |-> counts[key].value]
                               ELSE [kind |-> "err", value |-> 0]

\* ------------------------- RpcManager::get_provider over a pool, with tasks
\* the connections of the chain, in the order of the configuration, and the
\* tasks that call get_provider; MaxAcquires calls are followed
NumEndpoints == 2
NumCallers == 2
MaxAcquires == 4

PoolEndpoints == 1..NumEndpoints
Callers == 1..NumCallers

\* RpcEndpoint.weight of the configuration: the first endpoint has weight 0
EndpointWeight(e) == e - 1

\* RpcManager::new: every connection healthy, the index at 0
PoolInit ==
  /\ pool_healthy = [e \in PoolEndpoints |-> TRUE]
  /\ pool_permit = [e \in PoolEndpoints |-> TRUE]
  /\ pool_index = 0
  /\ pool_count = [e \in PoolEndpoints |-> 0]
  /\ pool_pc = [t \in Callers |-> "idle"]
  /\ pool_attempts = [t \in Callers |-> 0]
  /\ pool_result = [t \in Callers |-> 0]
  /\ pool_steady = [t \in Callers |-> {}]
  /\ pool_calls = 0

PoolIdle == PoolInit

\* the connections that admit now
Admitting(healthy, permit) == {e \in PoolEndpoints : healthy[e] /\ permit[e]}

\* what the calls in progress have seen stay admitting
StillSteady(healthy, permit) ==
  [t \in Callers |-> pool_steady[t] \cap Admitting(healthy, permit)]

\* get_provider, up to the loop: max_attempts = 2 * len, attempts = 0
GetProviderBegin(t) ==
  /\ PoolFrame
  /\ pool_pc[t] = "idle"
  /\ pool_calls < MaxAcquires
  /\ pool_calls' = pool_calls + 1
  /\ pool_pc' = [pool_pc EXCEPT ![t] = "loop"]
  /\ pool_attempts' = [pool_attempts EXCEPT ![t] = 0]
  /\ pool_result' = [pool_result EXCEPT ![t] = 0]
  /\ pool_steady' = [pool_steady EXCEPT ![t] = Admitting(pool_healthy, pool_permit)]
  /\ UNCHANGED <<pool_healthy, pool_permit, pool_index, pool_count>>

\* one turn of the loop of get_provider: fetch_add on the shared index, the
\* health test, the rate limiter, and the loop test that follows
GetProviderAttempt(t) ==
  /\ PoolFrame
  /\ pool_pc[t] = "loop"
  /\ LET e == pool_index + 1
         admitted == pool_healthy[e] /\ pool_permit[e]
         attempts == pool_attempts[t] + 1
     IN /\ pool_index' = (pool_index + 1) % NumEndpoints
        /\ IF admitted
             THEN /\ pool_count' = [pool_count EXCEPT ![e] = pool_count[e] + 1]
                  /\ pool_result' = [pool_result EXCEPT ![t] = e]
                  /\ pool_pc' = [pool_pc EXCEPT ![t] = "idle"]
                  /\ UNCHANGED pool_attempts
             ELSE /\ pool_attempts' = [pool_attempts EXCEPT ![t] = attempts]
                  /\ IF attempts < NumEndpoints * 2
                       THEN UNCHANGED <<pool_result, pool_pc>>
                       ELSE /\ pool_result' = [pool_result EXCEPT ![t] = -1]
                            /\ pool_pc' = [pool_pc EXCEPT ![t] = "idle"]
                  /\ UNCHANGED pool_count
  /\ UNCHANGED <<pool_healthy, pool_permit, pool_steady, pool_calls>>

\* RpcManager::check_health on one connection: the probe sets is_healthy
PoolCheckHealth(e, ok) ==
  /\ PoolFrame
  /\ pool_healthy' = [pool_healthy EXCEPT ![e] = ok]
  /\ pool_steady' = StillSteady(pool_healthy', pool_permit)
  /\ UNCHANGED <<pool_permit, pool_index, pool_count, pool_pc, pool_attempts,
                 pool_result, pool_calls>>

\* the rate limiter of one connection runs out of permits, or has one again
PoolRateLimit(e, permit) ==
  /\ PoolFrame
  /\ pool_permit' = [pool_permit EXCEPT ![e] = permit]
  /\ pool_steady' = StillSteady(pool_healthy, pool_permit')
  /\ UNCHANGED <<pool_healthy, pool_index, pool_count, pool_pc, pool_attempts,
                 pool_result, pool_calls>>

\* ------------------------------------------------ GasOracle::get_gas_data
\* the chain's ChainGasConfig: two sources, a cache TTL of two seconds, and
\* in wei a cap (max_gas_price_gwei) and a priority fee of 2, with the
\* multiplier 1.5 and the overhead given in hundredths; the clock is
\* followed until a cached value is MaxGasAge seconds old
NumSources == 2
MaxGasAge == 4
GasConfig(cap, overhead) ==
  [cache_ttl_seconds |-> 2, sources |-> 1..NumSources,
   base_fee_multiplier |-> 150, priority_fee |-> 2, max_gas_price |-> cap,
   gas_overhead_percentage |-> overhead]

\* the configurations update_chain_config installs: the cap at 20 or far
\* above every price, the overhead 5 or none
GasConfigs == {GasConfig(cap, overhead) : cap \in {20, 100}, overhead \in {0, 5}}

\* what fetch_from_source returns on one source: an error, or the GasData
\* of fetch_from_block_history for the base fee the source sees
GasBaseFees == {10, 14, 20}

SourceData(i, base) ==
  [source |-> i, gas_price |-> base, base_fee |-> base,
   priority_fee |-> gas_config.priority_fee, recommended_gas_price |-> base]

NoSourceData == SourceData(0, 0)

SourceOutcomes == {0} \cup GasBaseFees

\* apply_config_adjustments: `as u128` drops the fraction; gas_price is cut
\* to the cap, recommended_gas_price is the sum of adjusted_fee and the
\* priority fee, with the overhead on top
ApplyConfigAdjustments(gas_data, config) ==
  LET adjusted_fee == (gas_data.base_fee * config.base_fee_multiplier) \div 100
      gas_price == Min(adjusted_fee, config.max_gas_price)
      recommended == adjusted_fee + gas_data.priority_fee
  IN [gas_data EXCEPT
        !.gas_price = gas_price,
        !.recommended_gas_price =
           IF config.gas_overhead_percentage > 0
             THEN (recommended * (100 + config.gas_overhead_percentage)) \div 100
             ELSE recommended]

\* a cached GasData, stored `age` seconds ago
NoGasData == [present |-> FALSE, value |-> NoSourceData, age |-> 0]
CachedGasData(v) == [present |-> TRUE, value |-> v, age |-> 0]

NoGasResult == [kind |-> "none", value |-> NoSourceData]
GasOk(v) == [kind |-> "ok", value |-> v]
GasErr == [kind |-> "err", value |-> NoSourceData]

\* GasOracle::new
GasInit ==
  /\ gas_config = GasConfig(20, 5)
  /\ gas_mem = NoGasData
  /\ gas_redis = NoGasData
  /\ gas_result = NoGasResult

GasIdle == GasInit

\* fetch_fresh_gas_data: the sources in configured order, outs[i] being 0
\* when fetch_from_source fails on source i and else the base fee it sees;
\* the first success is adjusted and returned, and an error when there is
\* none
FetchFreshGasData(outs) ==
  LET good == {i \in gas_config.sources : outs[i] # 0}
  IN IF good = {} THEN GasErr
     ELSE LET first == CHOOSE i \in good : \A j \in good : i <= j
          IN GasOk(ApplyConfigAdjustments(SourceData(first, outs[first]), gas_config))

\* get_gas_data: the memory cache while younger than the TTL, then Redis
\* (conn_ok: the connection and the GET succeed), then the sources, whose
\* value is written to Redis (set_ok: SET EX succeeds) and then to memory
GetGasData(conn_ok, outs, set_ok) ==
  /\ GasFrame
  /\ UNCHANGED gas_config
  /\ IF gas_mem.present /\ gas_mem.age < gas_config.cache_ttl_seconds
       THEN gas_result' = GasOk(gas_mem.value) /\ UNCHANGED <<gas_mem, gas_redis>>
     ELSE IF ~conn_ok
       THEN gas_result' = GasErr /\ UNCHANGED <<gas_mem, gas_redis>>
     ELSE IF gas_redis.present
       THEN /\ gas_mem' = CachedGasData(gas_redis.value)
            /\ gas_result' = GasOk(gas_redis.value)
            /\ UNCHANGED gas_redis
     ELSE LET fresh == FetchFreshGasData(outs)
          IN IF fresh.kind = "err" \/ ~set_ok
               THEN gas_result' = GasErr /\ UNCHANGED <<gas_mem, gas_redis>>
               ELSE /\ gas_redis' = CachedGasData(fresh.value)
                    /\ gas_mem' = CachedGasData(fresh.value)
                    /\ gas_result' = fresh

\* a second passes: Redis drops the key when its TTL is over
TickGas ==
  /\ GasFrame
  /\ gas_mem.present \/ gas_redis.present
  /\ gas_mem.age < MaxGasAge
  /\ gas_mem' = IF gas_mem.present THEN [gas_mem EXCEPT !.age = @ + 1] ELSE gas_mem
  /\ gas_redis' = IF ~gas_redis.present THEN gas_redis
                  ELSE IF gas_redis.age + 1 >= gas_config.cache_ttl_seconds THEN NoGasData
                  ELSE [gas_redis EXCEPT !.age = @ + 1]
  /\ UNCHANGED <<gas_config, gas_result>>

\* update_chain_config
UpdateGasConfig(config) ==
  /\ GasFrame
  /\ gas_config' = config
  /\ UNCHANGED <<gas_mem, gas_redis, gas_result>>

\* ------------------- NonceManager: process_pending_txs beside the other calls
\* one nonce of the wallet is followed, and MaxReplacements replacements
RaceNonces == {0}
MaxReplacements == 2

RaceIdle ==
  /\ swp_snapshot = EmptyMap
  /\ swp_todo = <<>>
  /\ swp_running = FALSE
  /\ tx_replacements = [n \in RaceNonces |-> 0]

\* process_pending_txs, its first line: the table is cloned under the read
\* lock, and the loop will go through the clone in the order of the HashMap
SweepBegin(m, order) ==
  /\ RaceFrame
  /\ ~swp_running
  /\ ~txs_stuck[m]
  /\ swp_snapshot' = pending_txs[m]
  /\ swp_todo' = order
  /\ swp_running' = TRUE
  /\ UNCHANGED <<nonceVars, tx_replacements>>

\* process_pending_txs, one turn of the loop: the state is tested on the
\* clone, the receipt is asked for, and update_tx_state and should_replace_tx
\* work on the table as it is by then; after the last turn the pass returns
SweepVisit(m, first, second, redis) ==
  /\ RaceFrame
  /\ swp_running
  /\ ~txs_stuck[m]
  /\ IF swp_todo = <<>>
       THEN /\ swp_running' = FALSE
            /\ last_result' = [kind |-> "sweep", task |-> 0, value |-> 0]
            /\ UNCHANGED <<pending_txs, txs_stuck, swp_todo>>
       ELSE LET n == Head(swp_todo)
                r == IF swp_snapshot[n].state # "Pending"
                       THEN [table |-> pending_txs[m], blocked |-> FALSE]
                       ELSE SweepFrom(pending_txs[m], <<n>>, 1, [k \in {n} |-> first],
                                      [k \in {n} |-> second], [k \in {n} |-> redis], tx_now)
            IN /\ pending_txs' = [pending_txs EXCEPT ![m] = r.table]
               /\ txs_stuck' = [txs_stuck EXCEPT ![m] = r.blocked]
               /\ swp_todo' = Tail(swp_todo)
               /\ UNCHANGED <<swp_running, last_result>>
  /\ UNCHANGED <<redis_next, onchain, memory_cache, pc, op, local, issued, calls,
                 swp_snapshot, tx_replacements>>

\* create_replacement_tx, with the replacements of the nonce counted
BuildReplacement(m, n, ok) ==
  /\ RaceFrame
  /\ tx_replacements[n] < MaxReplacements
  /\ CreateReplacementTxCall(m, n, ok)
  /\ tx_replacements' = IF n \in DOMAIN pending_txs[m]
                          THEN [tx_replacements EXCEPT ![n] = @ + 1]
                          ELSE tx_replacements
  /\ UNCHANGED <<swp_snapshot, swp_todo, swp_running>>

\* ------------------------------------------------- Executor: the run loop
\* two execution rows are followed, and MaxSpawns tasks for each of them
NumExecutions == 2
MaxSpawns == 2
ExecutionIds == 1 .. NumExecutions
ExecutionStatuses == {"pending", "completed", "failed"}

RunIdle ==
  /\ run_rows = <<>>
  /\ run_spawned = [id \in ExecutionIds |-> 0]
  /\ run_tasks = [id \in ExecutionIds |-> 0]

\* insert_execution: the row is written with the status the caller gives;
\* id is the key of the table
InsertExecution(id, status) ==
  /\ RunFrame
  /\ \A i \in 1 .. Len(run_rows) : run_rows[i].id # id
  /\ run_rows' = Append(run_rows, [id |-> id, status |-> status])
  /\ UNCHANGED <<run_spawned, run_tasks>>

\* update_execution_status
UpdateExecutionStatus(id, status) ==
  /\ RunFrame
  /\ run_rows' = [i \in DOMAIN run_rows |->
                    IF run_rows[i].id = id
                      THEN [run_rows[i] EXCEPT !.status = status]
                      ELSE run_rows[i]]
  /\ UNCHANGED <<run_spawned, run_tasks>>

\* get_pending_executions: WHERE status = 'pending' ORDER BY created_at ASC
\* LIMIT $1
IsPendingRow(row) == row.status = "pending"
GetPendingExecutions(rows, limit) ==
  LET pending == SelectSeq(rows, IsPendingRow)
  IN SubSeq(pending, 1, IF Len(pending) < limit THEN Len(pending) ELSE limit)

\* Executor::run, one tick of the interval: a task is spawned for every row
\* that get_pending_executions returns; no row is written
RunTick(limit) ==
  LET pending == GetPendingExecutions(run_rows, limit)
      ids == {pending[i].id : i \in 1 .. Len(pending)}
  IN /\ RunFrame
     /\ \A id \in ids : run_spawned[id] < MaxSpawns
     /\ run_spawned' = [id \in ExecutionIds |->
                          IF id \in ids THEN run_spawned[id] + 1 ELSE run_spawned[id]]
     /\ run_tasks' = [id \in ExecutionIds |->
                        IF id \in ids THEN run_tasks[id] + 1 ELSE run_tasks[id]]
     /\ UNCHANGED run_rows

\* the spawned task: execute_opportunity returns, with its transactions sent
\* or with an error that is logged; the row is left as it is
TaskReturns(id) ==
  /\ RunFrame
  /\ run_tasks[id] > 0
  /\ run_tasks' = [run_tasks EXCEPT ![id] = @ - 1]
  /\ UNCHANGED <<run_rows, run_spawned>>

\* ----------------------------------------------------------- specifications
\* a component that is not running stays as it was constructed
NonceIdle == NonceInit /\ onchain = SeedLow
GuardIdle == GuardInit /\ guard_config = ProfitabilityConfig(50, 10, 20)
ExecIdle ==
  /\ ExecInit
  /\ exec_config = [enabled |-> Strategies, private_mempool |-> TRUE,
                    relays |-> Relays, relay_enabled |-> RelaySet]

\* ---- NonceManager: concurrent tasks on two replicas that share Redis
Init == NonceInit /\ GuardIdle /\ ExecIdle /\ DetInit /\ ScoreIdle /\ DispIdle /\ SndIdle /\ SwpIdle /\ CbIdle /\ QIdle /\ PoolIdle /\ GasIdle /\ RaceIdle /\ RunIdle

Next ==
  \/ \E t \in Tasks : StartCall(t, "reserve")
  \/ \E t \in Tasks : StartCall(t, "query")
  \/ \E t \in Tasks : ReserveStep(t)
  \/ \E m \in Managers : Expire(m)

Spec == Init /\ [][Next]_vars

\* ---- NonceManager: one task on one replica, its calls one after the other
SeqTask == CHOOSE t \in Tasks : \A u \in Tasks : t <= u

NextSeq ==
  \/ StartCall(SeqTask, "reserve")
  \/ StartCall(SeqTask, "query")
  \/ ReserveStep(SeqTask)
  \/ Expire(MgrOf(SeqTask))

SpecSeq == Init /\ [][NextSeq]_vars

\* ---- NonceManager: one replica, reserve and the in-flight table
TxMgr == MgrOf(SeqTask)

NextTx ==
  \/ StartCall(SeqTask, "reserve")
  \/ ReserveStep(SeqTask)
  \/ \E n \in RegNonces, tx \in TxInputs, ok \in BOOLEAN :
       RegisterTx(TxMgr, n, tx[1], tx[2], ok)
  \/ \E n \in RegNonces, st \in TxStates, ok \in BOOLEAN :
       UpdateTxState(TxMgr, n, st, ok)
  \/ \E n \in RegNonces, ok \in BOOLEAN : CreateReplacementTx(TxMgr, n, ok)

SpecTx == Init /\ [][NextTx]_vars

\* ---- NonceManager: the in-flight table of one replica, with clock and sweep
\* register_tx is called with two hashes at one gas price
SweepTxs == {<<1, 20>>, <<2, 20>>}

\* the receipts of one entry: what the loop gets and what should_replace_tx
\* gets; should_replace_tx makes no query for an entry the loop has observed
SweepReceipts ==
  {r \in ReceiptOutcomes \X ReceiptOutcomes : r[1] \in {"status1", "status0"} => r[2] = r[1]}

\* the nonces of the two transactions in flight
SweepNonces == {0, 1}

NextSweep ==
  \/ \E n \in SweepNonces, tx \in SweepTxs, ok \in BOOLEAN :
       RegisterTx(TxMgr, n, tx[1], tx[2], ok)
  \/ \E n \in SweepNonces, st \in TxStates, ok \in BOOLEAN : UpdateTxState(TxMgr, n, st, ok)
  \/ \E n \in SweepNonces, ok \in BOOLEAN : CreateReplacementTx(TxMgr, n, ok)
  \/ \E n \in SweepNonces, receipt \in ReceiptOutcomes : ShouldReplaceTx(TxMgr, n, receipt)
  \/ LET keys == PendingKeys(pending_txs[TxMgr])
     IN \E order \in Orders(keys), receipts \in [keys -> SweepReceipts],
           redis \in [keys -> BOOLEAN] :
          ProcessPendingTxs(TxMgr, TRUE, order, [n \in keys |-> receipts[n][1]],
                            [n \in keys |-> receipts[n][2]], redis)
  \/ ProcessPendingTxs(TxMgr, FALSE, <<>>, <<>>, <<>>, <<>>)
  \/ TickTx

InitSweep == NonceIdle /\ GuardIdle /\ ExecIdle /\ DetInit /\ ScoreIdle /\ DispIdle /\ SndIdle /\ SwpIdle /\ CbIdle /\ QIdle /\ PoolIdle /\ GasIdle /\ RaceIdle /\ RunIdle

SpecSweep == InitSweep /\ [][NextSweep]_vars

\* ---- NonceManager: the sweeper task going through its clone of the table
\* while other tasks register, observe and replace
InitRace == NonceIdle /\ GuardIdle /\ ExecIdle /\ DetInit /\ ScoreIdle /\ DispIdle /\ SndIdle /\ SwpIdle /\ CbIdle /\ QIdle /\ PoolIdle /\ GasIdle /\ RaceIdle /\ RunIdle

NextRace ==
  \/ \E n \in RaceNonces, tx \in SweepTxs, ok \in BOOLEAN :
       RegisterTx(TxMgr, n, tx[1], tx[2], ok)
  \/ \E n \in RaceNonces, st \in TxStates, ok \in BOOLEAN : UpdateTxState(TxMgr, n, st, ok)
  \/ \E n \in RaceNonces, ok \in BOOLEAN : BuildReplacement(TxMgr, n, ok)
  \/ \E order \in Orders(DOMAIN pending_txs[TxMgr] \cap RaceNonces) : SweepBegin(TxMgr, order)
  \/ \E receipts \in SweepReceipts, redis \in BOOLEAN :
       SweepVisit(TxMgr, receipts[1], receipts[2], redis)
  \/ TickTx

SpecRace == InitRace /\ [][NextRace]_vars

\* ---- Executor::run beside the writers of the executions table
InitRun == NonceIdle /\ GuardIdle /\ ExecIdle /\ DetInit /\ ScoreIdle /\ DispIdle /\ SndIdle /\ SwpIdle /\ CbIdle /\ QIdle /\ PoolIdle /\ GasIdle /\ RaceIdle /\ RunIdle

NextRun ==
  \/ \E id \in ExecutionIds, status \in ExecutionStatuses : InsertExecution(id, status)
  \/ \E id \in ExecutionIds, status \in ExecutionStatuses : UpdateExecutionStatus(id, status)
  \/ \E limit \in 1 .. NumExecutions : RunTick(limit)
  \/ \E id \in ExecutionIds : TaskReturns(id)

SpecRun == InitRun /\ [][NextRun]_vars

\* ---- one endpoint: its circuit breaker and its place in the RpcManager pool
InitBreaker == NonceIdle /\ GuardIdle /\ ExecIdle /\ DetInit /\ ScoreIdle /\ DispIdle /\ SndIdle /\ SwpIdle /\ CbInit /\ QIdle /\ PoolIdle /\ GasIdle /\ RaceIdle /\ RunIdle

NextBreaker ==
  \/ RecordSuccess
  \/ RecordFailure
  \/ ShouldAllowRequest
  \/ \E d \in TickSteps : TickCb(d)
  \/ \E ok \in BOOLEAN : RpcCheckHealth(ok)
  \/ \E p1, p2 \in BOOLEAN : GetProvider(<<p1, p2>>)

SpecBreaker == InitBreaker /\ [][NextBreaker]_vars

\* ---- one quorum read over any answers of up to MaxProviders providers
QInit ==
  /\ q_results \in UNION {[1..n -> QuorumResults] : n \in 0..MaxProviders}
  /\ q_outcome = NoOutcome

InitQuorum == NonceIdle /\ GuardIdle /\ ExecIdle /\ DetInit /\ ScoreIdle /\ DispIdle /\ SndIdle /\ SwpIdle /\ CbIdle /\ QInit /\ PoolIdle /\ GasIdle /\ RaceIdle /\ RunIdle

NextQuorum ==
  \/ CheckQuorum

SpecQuorum == InitQuorum /\ [][NextQuorum]_vars

\* ---- tasks calling get_provider while probes and rate limiters change
InitPool == NonceIdle /\ GuardIdle /\ ExecIdle /\ DetInit /\ ScoreIdle /\ DispIdle /\ SndIdle /\ SwpIdle /\ CbIdle /\ QIdle /\ PoolInit /\ GasIdle /\ RaceIdle /\ RunIdle

NextPool ==
  \/ \E t \in Callers : GetProviderBegin(t)
  \/ \E t \in Callers : GetProviderAttempt(t)
  \/ \E e \in PoolEndpoints, ok \in BOOLEAN : PoolCheckHealth(e, ok)
  \/ \E e \in PoolEndpoints, permit \in BOOLEAN : PoolRateLimit(e, permit)

SpecPool == InitPool /\ [][NextPool]_vars

\* ---- the gas oracle of one chain: reads, while time passes
InitGas == NonceIdle /\ GuardIdle /\ ExecIdle /\ DetInit /\ ScoreIdle /\ DispIdle /\ SndIdle /\ SwpIdle /\ CbIdle /\ QIdle /\ PoolIdle /\ GasInit /\ RaceIdle /\ RunIdle

NextGas ==
  \/ \E conn_ok, set_ok \in BOOLEAN, outs \in [1..NumSources -> SourceOutcomes] :
       GetGasData(conn_ok, outs, set_ok)
  \/ TickGas
  \/ \E config \in GasConfigs : UpdateGasConfig(config)

SpecGas == InitGas /\ [][NextGas]_vars

\* ---- ProfitabilityGuard: evaluations and hot reloads
GuardedId == "flash-loan-arb"

InitGuard == NonceIdle /\ GuardInit /\ ExecIdle /\ DetInit /\ ScoreIdle /\ DispIdle /\ SndIdle /\ SwpIdle /\ CbIdle /\ QIdle /\ PoolIdle /\ GasIdle /\ RaceIdle /\ RunIdle

NextGuard ==
  \/ \E raw_ev \in RawEvs, gas \in GasCosts, fee \in FlashFees, tip \in BuilderTips :
       IsProfitable(GuardedId, Usd(raw_ev), Usd(gas), Usd(fee), Usd(tip))
  \/ \E c \in GuardConfigs : UpdateConfig(c)

SpecGuard == InitGuard /\ [][NextGuard]_vars

\* ---- ProfitabilityGuard: configurations installed by update_config and by
\* load_config_from_db, with evaluations under whatever is installed
InitInstall == NonceIdle /\ GuardIdle /\ ExecIdle /\ DetInit /\ ScoreIdle /\ DispIdle /\ SndIdle /\ SwpIdle /\ CbIdle /\ QIdle /\ PoolIdle /\ GasIdle /\ RaceIdle /\ RunIdle

NextInstall ==
  \/ \E raw_ev \in RawEvs, gas \in GasCosts :
       IsProfitable(GuardedId, Usd(raw_ev), Usd(gas), 0, 0)
  \/ \E m \in InstallMinEvs, h \in InstallHaircuts, b \in InstallBpsU16 :
       UpdateConfig(ProfitabilityConfig(m, h, b))
  \/ \E m \in InstallMinEvs, h \in InstallHaircuts, b \in InstallBpsI32, ok \in BOOLEAN :
       LoadConfigFromDb(ProfitabilityConfigDb(m, h, b), ok)

SpecInstall == InitInstall /\ [][NextInstall]_vars

\* ---- Executor: execute_opportunity for the pending executions, the guard
\* evaluating opportunities beside it, and POST /config
ExecUpdateConfig(c) ==
  /\ ExecFrame
  /\ exec_config' = c
  /\ UNCHANGED <<nonce_tracker, exec_sent, exec_runs>>

InitExec == NonceIdle /\ GuardIdle /\ ExecInit /\ DetInit /\ ScoreIdle /\ DispIdle /\ SndIdle /\ SwpIdle /\ CbIdle /\ QIdle /\ PoolIdle /\ GasIdle /\ RaceIdle /\ RunIdle

NextExec ==
  \/ \E strategy \in Strategies : ExecuteOpportunity(strategy)
  \/ \E c \in ExecConfigs : ExecUpdateConfig(c)
  \/ IsProfitable(GuardedId, Usd(1000), Usd(100), Usd(20), Usd(5))

SpecExec == InitExec /\ [][NextExec]_vars

\* ---- OpportunityDetector: producers, the clock and the loop of run
InitDet == NonceIdle /\ GuardIdle /\ ExecIdle /\ DetInit /\ ScoreIdle /\ DispIdle /\ SndIdle /\ SwpIdle /\ CbIdle /\ QIdle /\ PoolIdle /\ GasIdle /\ RaceIdle /\ RunIdle

NextDet ==
  \/ \E id \in OppIds : InsertOpportunity(id)
  \/ \E d \in ClockSteps : AdvanceClock(d)
  \/ \E fetched \in BOOLEAN : RunIteration(fetched)

SpecDet == InitDet /\ [][NextDet]_vars

\* ---- calculate_opportunity_score over the opportunities of ScoreInputs
InitScore == NonceIdle /\ GuardIdle /\ ExecIdle /\ DetInit /\ ScoreInit /\ DispIdle /\ SndIdle /\ SwpIdle /\ CbIdle /\ QIdle /\ PoolIdle /\ GasIdle /\ RaceIdle /\ RunIdle

NextScore ==
  \/ ScoreOpportunity
  \/ \E input \in ScoreInputs : ScoreNext(input)

SpecScore == InitScore /\ [][NextScore]_vars

\* ---- Executor::send_private_transaction over the relay lists of DispConfigs
InitDisp == NonceIdle /\ GuardIdle /\ ExecIdle /\ DetInit /\ ScoreIdle /\ DispInit /\ SndIdle /\ SwpIdle /\ CbIdle /\ QIdle /\ PoolIdle /\ GasIdle /\ RaceIdle /\ RunIdle

NextDisp ==
  \/ \E ok \in BOOLEAN : DispContact(ok)
  \/ DispSkip
  \/ DispFinish

SpecDisp == InitDisp /\ [][NextDisp]_vars

\* ---- the bundle senders: create_sender, then send_bundle on the sender
InitSnd == NonceIdle /\ GuardIdle /\ ExecIdle /\ DetInit /\ ScoreIdle /\ DispIdle /\ SndInit /\ SwpIdle /\ CbIdle /\ QIdle /\ PoolIdle /\ GasIdle /\ RaceIdle /\ RunIdle

NextSnd ==
  \/ \E relay_type \in RelayTypes, endpoint \in Endpoints, client_built \in BOOLEAN :
       CreateSender(relay_type, endpoint, client_built)
  \/ \E txs \in Bundles, prepared \in BOOLEAN, submit \in SubmitOutcomes :
       FlashbotsSendBundle(txs, prepared, submit)
  \/ \E txs \in Bundles, sim \in SimOutcomes, submit \in {"ok", "err"} :
       EdenSendBundle(txs, sim, submit)
  \/ \E txs \in Bundles, sim \in SimOutcomes, submit \in {"ok", "err"} :
       MevShareSendBundle(txs, sim, submit)
  \/ \E txs \in Bundles : \E outs \in [1 .. Len(txs) -> SendOutcomes] :
       PublicSendBundle(txs, outs)

SpecSnd == InitSnd /\ [][NextSnd]_vars

\* the authoritative next nonce of the slot: the shared store, seeded from the chain
NextNonce == IF redis_next.set THEN FromDecStr(redis_next.str) ELSE onchain

\* -------------------------------------------------------------- claims C1-C3

\* replica m is the only one that has been used so far
OnlyReplicaUsed(m) ==
  \A t \in Tasks : MgrOf(t) # m => pc[t] = "idle" /\ ~memory_cache[MgrOf(t)].present

\* C1: under any interleaving of concurrent reserve_nonce calls made by tasks
\* of one NonceManager, no two calls return the same nonce.
C1_NoDuplicateOneManager ==
  \A m \in Managers :
    OnlyReplicaUsed(m) =>
      \A i, j \in 1 .. Len(issued) : i < j => issued[i].nonce # issued[j].nonce

\* C2: two replicas that share the coordinator store never return the same
\* nonce, whatever the order of their calls and the state of their caches.
C2_NoDuplicateAcrossReplicas ==
  \A i, j \in 1 .. Len(issued) :
    (i < j /\ issued[i].mgr # issued[j].mgr) => issued[i].nonce # issued[j].nonce

\* C3: k sequential reserve calls on one manager, from an empty slot seeded
\* with the on-chain count, return seed, seed+1, ..., seed+k-1, and next_nonce
\* queried afterwards is seed+k, also across cache expiry.
C3_SequentialReserve ==
  /\ \A i \in 1 .. Len(issued) : issued[i].nonce = onchain + i - 1
  /\ last_result.kind = "query" => last_result.value = onchain + Len(issued)
  /\ (\A t \in Tasks : pc[t] = "idle") => NextNonce = onchain + Len(issued)

\* two nonces were reserved, the cache entry expired, and the query re-read
\* seed+2 from the shared store
C3_Witness ==
  /\ Len(issued) >= 2
  /\ op[SeqTask] = "query"
  /\ pc[SeqTask] = "gn_cache_put"
  /\ local[SeqTask] = onchain + 2

\* ------------------------------------------------------------------ claim C4

\* C4: in every reachable state next_nonce is at least 1 + the largest nonce
\* for which an InFlightTx exists, whatever nonce register is called with.
C4_NextNonceAboveInFlight ==
  \A m \in Managers : \A n \in DOMAIN pending_txs[m] : NextNonce >= n + 1

\* ------------------------------------------------------------ claims C5, C7

\* C5: every transaction or bundle that the executor sends has been accepted
\* by the profitability guard beforehand (net_ev_usd >= min_ev_usd); no
\* strategy's send path bypasses the gate.
C5_EverySendGated ==
  \A i \in 1 .. Len(exec_sent) : exec_sent[i].gated

\* C7: when the enable flag of a strategy is false, the executor sends no
\* transaction and no bundle for an execution of that strategy.
C7_NoSendWhenDisabled ==
  \A i \in 1 .. Len(exec_sent) : exec_sent[i].strategy_enabled

\* ------------------------------------------------------------------ claim C6

\* the arguments of the last evaluation, in tenths of a USD
EvalTenths ==
  [raw_ev |-> guard_eval.raw_ev_usd \div 10000, gas |-> guard_eval.gas_cost_usd \div 10000,
   flash_fee |-> guard_eval.flash_fee_usd \div 10000,
   tip |-> guard_eval.builder_tip_usd \div 10000,
   min_ev |-> guard_eval.config.min_ev_usd \div 10000,
   bps |-> guard_eval.config.max_slippage_bps,
   haircut |-> guard_eval.config.haircut_percentage]

\* the worked example: raw_ev 100, gas 10, flash fee 2, tip 0.5, 20 bps, min_ev 5
WorkedExample(haircut) ==
  /\ guard_eval.evaluated
  /\ EvalTenths = [raw_ev |-> 1000, gas |-> 100, flash_fee |-> 20, tip |-> 5,
                   min_ev |-> 50, bps |-> 20, haircut |-> haircut]

\* C6: is_profitable returns net_ev = raw_ev - gas - flash_fee
\* - raw_ev * bps / 10000 - tip - raw_ev * haircut / 100 and the verdict
\* net_ev >= min_ev_usd; the worked example gives 77.3, accepted, at a haircut
\* of 10 percent and -2.7, rejected, at 90 percent.
C6_NetEvAndVerdict ==
  /\ guard_eval.evaluated =>
       LET a == EvalTenths IN
       /\ guard_eval.net_ev_usd =
            10000 * (a.raw_ev - a.gas - a.flash_fee - a.tip)
              - a.raw_ev * a.bps - 100 * a.raw_ev * a.haircut
       /\ guard_eval.is_profitable = (guard_eval.net_ev_usd >= guard_eval.config.min_ev_usd)
       /\ guard_eval.is_profitable => guard_eval.opportunity_id \in guard_accepted
  /\ WorkedExample(10) => guard_eval.net_ev_usd = 7730000 /\ guard_eval.is_profitable
  /\ WorkedExample(90) => guard_eval.net_ev_usd = -270000 /\ ~guard_eval.is_profitable

\* the worked example was evaluated at a haircut of 90 percent and rejected
C6_Witness ==
  /\ WorkedExample(90)
  /\ guard_eval.net_ev_usd < 0
  /\ ~guard_eval.is_profitable

\* ------------------------------------------------------------ claims C8-C10

\* the pops of the last execute_top_opportunities that were marked pending
Executed == {i \in 1 .. Len(det_drained) : det_drained[i].outcome = "executed"}

\* C8: an opportunity whose base or quote token is blacklisted is never
\* drained for execution, whatever its other scores are.
C8_BlacklistedNeverDrained ==
  \A i \in Executed : ~det_drained[i].blacklisted

\* C9: an opportunity is never drained while another queued one has a strictly
\* higher total score, and among equal totals the older ts is drained first.
C9_PriorityOrderFifo ==
  \A i \in Executed :
    ~det_drained[i].higher_waiting /\ ~det_drained[i].older_tie_waiting

\* C10: an opportunity whose timing score is 0 (age of 10 000 ms or more) is
\* never drained for execution.
C10_StaleNeverDrained ==
  \A i \in Executed : det_drained[i].timing_score > 0 /\ det_drained[i].age_ms < 10000

\* ----------------------------------------------------------------- claim C11

\* C11: one call of execute_top_opportunities removes at most
\* max_concurrent_trades opportunities from the priority queue, each of them
\* with a total above 0, also when mark_opportunity_pending fails for some.
C11_DrainAtMostMax ==
  /\ Len(det_drained) <= det_config.max_concurrent_trades
  /\ \A i \in 1 .. Len(det_drained) : det_drained[i].priority > 0

\* ----------------------------------------------------------------- claim C12

\* the opportunities that were emitted for execution and have not finished:
\* the rows whose metadata.status is "pending" (nothing in the engine takes
\* that status away again)
InExecution == {id \in DOMAIN det_db : det_db[id].pending}

\* C12: at every instant the number of opportunities emitted for execution
\* and not finished is at most max_concurrent_trades, over any sequence of
\* ticks and however slow the executor is.
C12_InExecutionCapped ==
  Cardinality(InExecution) <= det_config.max_concurrent_trades

\* ----------------------------------------------------------------- claim C13

\* the opportunity that was scored has a blacklisted base or quote token
ScoredBlacklisted ==
  \/ score_input.opp.base_token \in DetConfig.blacklisted_tokens
  \/ score_input.opp.quote_token \in DetConfig.blacklisted_tokens

RelaysPassed ==
  SubSeq(disp_config.relays, 1,
         IF disp_result.state = "ok" THEN disp_pos ELSE disp_pos - 1)

\* the relays that were contacted, in the order of the contacts
RelaysContacted == [i \in 1 .. Len(disp_log) |-> disp_log[i].relay]

\* C14: the dispatcher submits to the relays strictly in the supplied order,
\* one at a time; a failure makes it try the next relay; it returns the
\* ticket of the first relay that succeeds and contacts no relay after it.
C14_SequentialFirstSuccess ==
  /\ RelaysContacted = SelectSeq(RelaysPassed, Usable)
  /\ \A i \in 1 .. Len(disp_log) - 1 : ~disp_log[i].ok
  /\ disp_result.state = "ok" <=> (Len(disp_log) > 0 /\ disp_log[Len(disp_log)].ok)
  /\ disp_result.state = "ok" =>
       /\ disp_result.relay = disp_log[Len(disp_log)].relay
       /\ disp_result.relay = disp_config.relays[disp_result.ticket]
       /\ disp_result.ticket = disp_pos

\* flashbots failed, bloxroute succeeded and its result was returned; the
\* third relay of the list was not contacted
C14_Witness ==
  /\ Len(disp_config.relays) = 3
  /\ Usable(disp_config.relays[3])
  /\ disp_log = << [relay |-> "flashbots", channel |-> "private", ok |-> FALSE],
                   [relay |-> "bloxroute", channel |-> "private", ok |-> TRUE] >>
  /\ disp_result = [state |-> "ok", relay |-> "bloxroute", ticket |-> 2]

\* the configured order names the public sender as the fallback
PublicFallbackAllowed ==
  \E i \in 1 .. Len(disp_config.relays) : disp_config.relays[i] = "public"

\* C15: when every private relay fails and public fallback is allowed, the
\* transaction is sent through the public sender; AllRelaysFailed is reported
\* only when the public sender fails too or public fallback is not allowed.
C15_PublicFallback ==
  (disp_result.state = "all_failed" /\ PublicFallbackAllowed) =>
    \E i \in 1 .. Len(disp_log) : disp_log[i].channel = "public" /\ ~disp_log[i].ok


\* ---------------------------------------------------------- claims C16-C20

\* C16: on a private relay sender (Flashbots, Eden, MEV-Share) every
\* submission request of send_bundle comes after a successful simulation of
\* the same bundle on that relay, and a simulation that fails or answers
\* success = false is followed by no submission and by an error.
C16_SimulatedBeforeSubmit ==
  snd_sender.relay_type \in PrivateRelayTypes =>
    /\ \A i \in 1 .. Len(snd_requests) :
         snd_requests[i].op = "submit" =>
           \E j \in 1 .. i - 1 :
             /\ snd_requests[j].op = "simulate"
             /\ snd_requests[j].txs = snd_requests[i].txs
             /\ snd_requests[j].ok
    /\ (\E j \in 1 .. Len(snd_requests) :
          snd_requests[j].op = "simulate" /\ ~snd_requests[j].ok) =>
         /\ \A i \in 1 .. Len(snd_requests) : snd_requests[i].op # "submit"
         /\ snd_result.state \notin {"ok", NONE}


\* the first n characters of an endpoint are the scheme
HasScheme(endpoint, scheme) ==
  /\ Len(endpoint) >= Len(scheme)
  /\ SubSeq(endpoint, 1, Len(scheme)) = scheme

\* C18: create_sender for a private relay (Flashbots, Eden, MEV-Share)
\* fails for every endpoint that does not start with https:// and returns a
\* sender over that endpoint for one that does (once reqwest's client is
\* built, for Eden and MEV-Share), so no private sender has a non-TLS
\* endpoint; for the public relay it succeeds exactly for the endpoints that
\* start with http:// or https://.
C18_EndpointSchemes ==
  LET call == snd_new
      made == [relay_type |-> call.relay_type, endpoint |-> call.endpoint]
  IN /\ snd_sender.relay_type \in PrivateRelayTypes =>
          HasScheme(snd_sender.endpoint, HttpsPrefix)
     /\ snd_sender # NoSender => snd_sender = made
     /\ call.relay_type \in PrivateRelayTypes =>
          /\ ~HasScheme(call.endpoint, HttpsPrefix) => snd_sender = NoSender
          /\ (HasScheme(call.endpoint, HttpsPrefix)
                /\ (call.client_built \/ call.relay_type = "Flashbots")) =>
               snd_sender = made
     /\ call.relay_type = "Public" =>
          (snd_sender = made <=>
             (HasScheme(call.endpoint, HttpPrefix)
                \/ HasScheme(call.endpoint, HttpsPrefix)))

\* FlashbotsSender::new("http://r", _) was called and returned Err
C18_Witness ==
  /\ snd_new.relay_type = "Flashbots"
  /\ snd_new.endpoint = HttpPrefix \o <<"r">>
  /\ snd_sender = NoSender


\* the send_tx requests of the last call, and the transactions whose
\* send_transaction returned Ok (broadcast and congestion estimate both ok)
IsSendTx(request) == request.op = "send_tx"
SendsMade == SelectSeq(snd_requests, IsSendTx)
SentOk(tx) ==
  \E j \in 1 .. Len(snd_requests) : snd_requests[j] = Request("get_block", <<tx>>, TRUE)
PublicSendDone ==
  /\ snd_sender.relay_type = "Public"
  /\ snd_bundle # <<>>
  /\ snd_result # NoResult

\* every transaction of the bundle is sent on its own, in the bundle's order;
\* Ok iff some send succeeded, AllTransactionsFailed iff all of them failed
EverySentInOrder ==
  /\ Len(SendsMade) = Len(snd_bundle)
  /\ \A i \in 1 .. Len(snd_bundle) : SendsMade[i].txs = <<snd_bundle[i]>>
  /\ snd_result.state = "ok" <=> \E i \in 1 .. Len(snd_bundle) : SentOk(snd_bundle[i])
  /\ snd_result.state = "all_failed" <=> \A i \in 1 .. Len(snd_bundle) : ~SentOk(snd_bundle[i])

\* C19: PublicSender::send_bundle on a non-empty bundle sends every
\* transaction in order on its own, returns Ok iff at least one send
\* succeeded, with the hash of the bundle's first transaction, and
\* AllTransactionsFailed iff all sends failed.
C19_FirstTransactionTicket ==
  PublicSendDone =>
    /\ EverySentInOrder
    /\ snd_result.state = "ok" => snd_result.tx_hash = Hash(snd_bundle[1])


\* the strategies whose transactions must land together
AtomicMultiTx == {"sandwich", "jit-liquidity"}

\* C17: every send of a sandwich or JIT-liquidity execution is a bundle handed
\* to the bundle relay (send_flashbots_bundle); none of them goes through the
\* public sender or as a single private transaction, whatever the
\* configuration and whatever relays are enabled.
C17_AtomicOnlyAsBundle ==
  \A i \in 1 .. Len(exec_sent) :
    exec_sent[i].strategy \in AtomicMultiTx =>
      /\ exec_sent[i].channel = "bundle"
      /\ exec_sent[i].relay = "flashbots"

\* a sandwich and a JIT execution were both sent, with private_mempool off
\* and no private relay enabled
C17_Witness ==
  /\ ~exec_config.private_mempool
  /\ exec_config.relay_enabled = {}
  /\ Len(exec_sent) = 2
  /\ exec_sent[1].strategy = "sandwich" /\ exec_sent[1].channel = "bundle"
  /\ exec_sent[2].strategy = "jit-liquidity" /\ exec_sent[2].channel = "bundle"


\* create_replacement_tx(n) of the manager returned Ok in this step
Replaced(n) ==
  /\ n \in DOMAIN pending_txs[TxMgr]
  /\ \E ok \in BOOLEAN : CreateReplacementTx(TxMgr, n, ok)
  /\ last_result'.kind = "replacement"

\* C20: a replacement returns a gas price of at least
\* ceil(old * (1 + bump / 100)), i.e. new * 100 >= old * (100 + bump), leaves
\* the entry under the same nonce key and moves it to Replaced.
C20_ReplacementBump ==
  [][\A n \in RegNonces :
       Replaced(n) =>
         /\ last_result'.value * 100
              >= pending_txs[TxMgr][n].gas_price * (100 + priority_fee_bump_percent)
         /\ DOMAIN pending_txs'[TxMgr] = DOMAIN pending_txs[TxMgr]
         /\ pending_txs'[TxMgr][n].nonce = n
         /\ pending_txs'[TxMgr][n].state = "Replaced"]_vars


\* ---------------------------------------------------------- claims C21-C30

\* C21: should_replace_tx returns true only for an entry that is Pending, older
\* than tx_timeout_secs, whose receipt query succeeded and found no receipt,
\* and whose retry_count is below max_retry_count.
C21_ReplaceOnlyWhenEligible ==
  [][\A n \in SweepNonces, receipt \in ReceiptOutcomes :
       (ShouldReplaceTx(TxMgr, n, receipt) /\ last_result'.value = 1) =>
          /\ n \in DOMAIN pending_txs[TxMgr]
          /\ pending_txs[TxMgr][n].state = "Pending"
          /\ tx_now - pending_txs[TxMgr][n].created_at > TxConfig.tx_timeout_secs
          /\ receipt = "none"
          /\ pending_txs[TxMgr][n].retry_count < TxConfig.max_retry_count]_vars


\* the entries of the in-flight table that carry nonce n and are Pending
PendingFor(n) ==
  {k \in DOMAIN pending_txs[TxMgr] :
     pending_txs[TxMgr][k].nonce = n /\ pending_txs[TxMgr][k].state = "Pending"}

\* C22: after any sequence of register_tx, update_tx_state,
\* create_replacement_tx and process_pending_txs the in-flight table holds at
\* most one Pending TxInfo for each nonce, and that one under its own nonce.
C22_OnePendingPerNonce ==
  \A n \in SweepNonces : Cardinality(PendingFor(n)) <= 1 /\ PendingFor(n) \subseteq {n}

\* hash 2 is the Pending entry of nonce 0, registered after the clock moved,
\* beside a Replaced entry at nonce 1: nonce 0 has exactly one Pending entry
C22_Witness ==
  /\ DOMAIN pending_txs[TxMgr] = SweepNonces
  /\ pending_txs[TxMgr][0].hash = 2
  /\ pending_txs[TxMgr][0].state = "Pending"
  /\ pending_txs[TxMgr][0].created_at > 0
  /\ pending_txs[TxMgr][1].state = "Replaced"
  /\ PendingFor(0) = {0}


\* C23: update_tx_state to Mined or Failed on a registered Pending entry
\* returns (it does not wait for ever for the lock of the table) and leaves
\* the table without the entry.
C23_ObserveCompletes ==
  [][\A n \in SweepNonces, final \in {"Mined", "Failed"} :
       (/\ n \in DOMAIN pending_txs[TxMgr]
        /\ pending_txs[TxMgr][n].state = "Pending"
        /\ UpdateTxState(TxMgr, n, final, TRUE)) =>
          /\ ~txs_stuck'[TxMgr]
          /\ n \notin DOMAIN pending_txs'[TxMgr]]_vars


\* update_tx_state(n, Mined) once, and once more when the first call returned
ObservedOnce(n) == UpdateTxStateOn(pending_txs[TxMgr], n, "Mined", TRUE)
ObservedTwice(n) ==
  IF ObservedOnce(n).outcome = "blocked" THEN ObservedOnce(n)
  ELSE UpdateTxStateOn(ObservedOnce(n).table, n, "Mined", TRUE)

\* C24: for a registered Pending entry, observing Mined twice leaves the same
\* in-flight table as observing it once, and both observations succeed.
C24_ObserveIdempotent ==
  ~txs_stuck[TxMgr] =>
    \A n \in PendingKeys(pending_txs[TxMgr]) :
      /\ ObservedOnce(n).outcome = "ok"
      /\ ObservedTwice(n).outcome = "ok"
      /\ ObservedTwice(n).table = ObservedOnce(n).table


\* what C25 asks of one entry: its state after a pass that got `receipt` for it
SweptState(before, receipt) ==
  CASE before.state # "Pending" -> {before.state}
    [] receipt = "status1" -> {"Mined", "removed"}
    [] receipt = "status0" -> {"Failed", "removed"}
    [] /\ tx_now - before.created_at > TxConfig.tx_timeout_secs
       /\ before.retry_count < TxConfig.max_retry_count -> {"Expired"}
    [] OTHER -> {"Pending"}

\* C25: one pass of process_pending_txs (every Redis write succeeding, the
\* receipt of an entry the same whenever it is asked for) moves each Pending
\* entry with a receipt to Mined (status 1) or Failed (status 0), each other
\* Pending entry that has timed out and has retries left to Expired, leaves
\* the remaining Pending entries Pending, and leaves all other entries as
\* they are.
C25_SweepPass ==
  [][LET table == pending_txs[TxMgr]
         keys == PendingKeys(table)
     IN \A order \in Orders(keys), receipt \in [keys -> ReceiptOutcomes] :
          ProcessPendingTxs(TxMgr, TRUE, order, receipt, receipt, [n \in keys |-> TRUE]) =>
            \A n \in DOMAIN table :
              LET after == IF n \in DOMAIN pending_txs'[TxMgr]
                           THEN pending_txs'[TxMgr][n].state ELSE "removed"
              IN /\ after \in SweptState(table[n], IF n \in keys THEN receipt[n] ELSE "none")
                 /\ n \notin keys => pending_txs'[TxMgr][n] = table[n]]_vars

\* C26: starting Closed, the breaker is Open once 5 failures were recorded in
\* a row, a recorded failure opens a Closed breaker only as the 5th in a row
\* (a recorded success starts the count again), and a request made while the
\* breaker is Open is admitted only when at least 60 s have passed since it
\* opened
C26_TripAfterFiveFailures ==
  /\ cb_state = "Closed" => cb_fail_run < 5
  /\ (cb_last.call = "failure" /\ cb_last.before = "Closed")
       => (cb_state = "Open" <=> cb_fail_run >= 5)
  /\ (cb_last.call = "allow" /\ cb_last.before = "Open" /\ cb_last.allowed)
       => cb_last.elapsed >= 60

\* five failures in a row opened the breaker, and a request 60 s later was
\* turned away
C26_Witness ==
  /\ cb_state = "Open"
  /\ cb_fail_run = 5
  /\ cb_last = [call |-> "allow", before |-> "Open", allowed |-> FALSE, elapsed |-> 60]

\* C27: get_provider never hands out the endpoint while its circuit breaker
\* is Open
C27_OpenEndpointSkipped ==
  [][\A p1, p2 \in BOOLEAN :
       (GetProvider(<<p1, p2>>) /\ rpc_acquired' = "endpoint") => cb_state # "Open"]_vars

\* C28: a recorded success closes a HalfOpen breaker exactly when it is the
\* 3rd success recorded in HalfOpen with no failure between; a failure
\* recorded in HalfOpen opens the breaker again, puts the success count at 0
\* and starts the 60 s period afresh; nothing else takes a breaker out of
\* HalfOpen
C28_HalfOpenRecovery ==
  [][cb_state = "HalfOpen" =>
       /\ RecordSuccess => (cb_state' = "Closed" <=> cb_ok_run' = 3)
       /\ RecordFailure =>
            (cb_state' = "Open" /\ cb_success_count' = 0 /\ cb_elapsed' = 0)
       /\ cb_state' # "HalfOpen" => (RecordSuccess \/ RecordFailure)]_vars

\* the 3rd success in a row, recorded in HalfOpen 30 s after the breaker let
\* a request through, has closed the breaker
C28_Witness ==
  /\ cb_state = "Closed"
  /\ cb_ok_run = 3
  /\ cb_last = [call |-> "success", before |-> "HalfOpen", allowed |-> FALSE, elapsed |-> 30]

\* C29: once the open period is over the breaker admits one trial request,
\* and no second one before an outcome has been recorded
C29_OneTrialInHalfOpen == cb_state = "HalfOpen" => cb_trials <= 1

\* the providers whose successful result is v
Agreeing(v) == {i \in 1..Len(q_results) : q_results[i] = OkResult(v)}

\* k = ceil(2n/3) for the n providers asked
QuorumSize ==
  CHOOSE k \in 0..Len(q_results) :
    3 * k >= 2 * Len(q_results) /\ 3 * (k - 1) < 2 * Len(q_results)

\* v is the value of a largest group, and that group has k members or more
MeetsQuorum(v) ==
  /\ Agreeing(v) # {}
  /\ Cardinality(Agreeing(v)) >= QuorumSize
  /\ \A w \in QuorumValues : Cardinality(Agreeing(w)) <= Cardinality(Agreeing(v))

\* C30: a quorum read returns v exactly when v is the value of the largest
\* group of equal successful results and that group has ceil(2n/3) members
\* or more, n counting every provider asked; otherwise it fails; no two
\* values meet the quorum; {100, 100, 99} gives 100 and {100, 99, 98} fails
C30_QuorumRead ==
  q_outcome # NoOutcome =>
    /\ \A v \in QuorumValues :
         q_outcome = [kind |-> "ok", value |-> v] <=> MeetsQuorum(v)
    /\ q_outcome.kind = "err" <=> ~ \E v \in QuorumValues : MeetsQuorum(v)
    /\ Cardinality({v \in QuorumValues : MeetsQuorum(v)}) <= 1
    /\ q_results = <<OkResult(100), OkResult(100), OkResult(99)>>
         => q_outcome = [kind |-> "ok", value |-> 100]
    /\ q_results = <<OkResult(100), OkResult(99), OkResult(98)>>
         => q_outcome.kind = "err"

\* four providers, one of them failing: the three that answer 100 carry it
C30_Witness ==
  /\ q_results = <<OkResult(100), ErrResult, OkResult(100), OkResult(100)>>
  /\ q_outcome = [kind |-> "ok", value |-> 100]

\* ---------------------------------------------------------- claims C31-C40

\* C31: a call of get_provider ends in an error only when no connection of
\* the chain stayed healthy and with permits for the whole of the call
C31_FailsOnlyWhenNoneAdmits ==
  \A t \in Callers :
    (pool_pc[t] = "idle" /\ pool_result[t] = -1) => pool_steady[t] = {}

\* C32: selection follows the weights: a connection of weight 0 is never
\* returned, and of two connections the one with the larger weight has not
\* been returned less often than the other
C32_WeightedRoundRobin ==
  \A a, b \in PoolEndpoints :
    /\ EndpointWeight(a) = 0 => pool_count[a] = 0
    /\ (EndpointWeight(a) > EndpointWeight(b)
          /\ \A e \in PoolEndpoints : pool_healthy[e] /\ pool_permit[e])
         => pool_count[a] >= pool_count[b]

\* the value get_gas_data returned or fetched last, if any is still held
LastKnownGas == IF gas_mem.present THEN gas_mem ELSE gas_redis

\* C33: a read on which every source fails returns the last known GasData
\* when that value is younger than 2 * cache_ttl and fails otherwise; a read
\* that goes to the sources (nothing cached, the store reachable) and finds
\* one that succeeds returns the adjusted data of the first such source
C33_GasFallback ==
  [][\A conn_ok, set_ok \in BOOLEAN, outs \in [1..NumSources -> SourceOutcomes] :
       GetGasData(conn_ok, outs, set_ok) =>
         IF \A i \in 1..NumSources : outs[i] = 0
           THEN IF LastKnownGas.present
                     /\ LastKnownGas.age < 2 * gas_config.cache_ttl_seconds
                  THEN gas_result' = GasOk(LastKnownGas.value)
                  ELSE gas_result' = GasErr
           ELSE (conn_ok /\ set_ok /\ ~gas_redis.present
                   /\ ~(gas_mem.present /\ gas_mem.age < gas_config.cache_ttl_seconds))
                  => \E i \in 1..NumSources :
                       /\ outs[i] # 0
                       /\ \A j \in 1..(i - 1) : outs[j] = 0
                       /\ gas_result'.kind = "ok"
                       /\ gas_result'.value.source = i
                       /\ gas_result'.value.base_fee = outs[i]]_vars

\* C34: the data a fetch stores has recommended = (min(max_cap, base_fee *
\* multiplier) + priority_fee) * (1 + overhead), fractions dropped, so that
\* before overhead it is at most max_cap + priority_fee
C34_CapOnRecommended ==
  [][(~gas_redis.present /\ gas_redis'.present) =>
       LET d == gas_result'.value
           capped == Min(gas_config.max_gas_price,
                         (d.base_fee * gas_config.base_fee_multiplier) \div 100)
           recommended == capped + d.priority_fee
       IN /\ recommended <= gas_config.max_gas_price + d.priority_fee
          /\ d.recommended_gas_price =
               (recommended * (100 + gas_config.gas_overhead_percentage)) \div 100]_vars

\* a configuration within the allowed ranges
ConfigValid(config) ==
  /\ config.max_slippage_bps >= 0
  /\ config.max_slippage_bps <= 10000
  /\ config.min_ev_usd >= 0
  /\ config.haircut_percentage >= 0

\* C35: a configuration that is installed is within the allowed ranges, and
\* loading a row that is not leaves the active configuration as it was
C35_InvalidConfigRejected ==
  [][/\ guard_config' # guard_config => ConfigValid(guard_config')
     /\ \A m \in InstallMinEvs, h \in InstallHaircuts, b \in InstallBpsI32 :
          (LoadConfigFromDb(ProfitabilityConfigDb(m, h, b), TRUE)
             /\ ~ConfigValid(ProfitabilityConfigDb(m, h, b)))
            => guard_config' = guard_config]_vars

\* C36: a turn of the loop of run drains for execution no opportunity that
\* an earlier turn has drained and marked pending already
C36_DrainedAtMostOnce ==
  [][\A fetched \in BOOLEAN :
       RunIteration(fetched) =>
         \A i \in 1 .. Len(det_drained') :
           det_drained'[i].outcome = "executed"
             => ~det_db[det_drained'[i].id].pending]_vars

\* C40: a register_tx, update_tx_state or create_replacement_tx that returns
\* an error because the write to Redis failed leaves the in-flight table as
\* it was
C40_FailedWriteLeavesTable ==
  [][\A n \in SweepNonces :
       (\/ \E tx \in SweepTxs : RegisterTx(TxMgr, n, tx[1], tx[2], FALSE)
        \/ \E st \in TxStates : UpdateTxState(TxMgr, n, st, FALSE)
        \/ CreateReplacementTx(TxMgr, n, FALSE))
         => pending_txs' = pending_txs]_vars

\* C37: a turn of the sweeper's loop or a create_replacement_tx changes the
\* state of an entry only when that state is Pending
C37_ChangesStartFromPending ==
  [][\A n \in RaceNonces :
       LET before == pending_txs[TxMgr]
           after == pending_txs'[TxMgr]
       IN (/\ n \in DOMAIN before /\ n \in DOMAIN after
           /\ after[n].state # before[n].state
           /\ \/ \E receipts \in SweepReceipts, redis \in BOOLEAN :
                   SweepVisit(TxMgr, receipts[1], receipts[2], redis)
              \/ \E ok \in BOOLEAN : BuildReplacement(TxMgr, n, ok))
            => before[n].state = "Pending"]_vars

\* C38: the replacements made for one nonce never exceed max_retry_count,
\* also when the replacement is registered again under the same nonce
C38_ReplacementsCapped ==
  \A n \in RaceNonces : tx_replacements[n] <= TxConfig.max_retry_count

\* C39: an execution row is handed to at most one executor task, over all the
\* ticks of Executor::run
C39_SpawnedAtMostOnce ==
  \A id \in ExecutionIds : run_spawned[id] <= 1

====
